---- MODULE Spec2Model ----
(***************************************************************************)
(* A model of dglink's incremental graph entity store (NodeSet / EdgeSet), *)
(* its TSV serializer, source projection, resource merger and the weighted *)
(* Jaccard scorer.                                                         *)
(*                                                                         *)
(* Python strings are modelled as tuples of one-character strings, so that *)
(* replace / split / join / set(str) / f-strings act on characters.        *)
(***************************************************************************)
EXTENDS Integers, Sequences, FiniteSets, TLC

\* ------------------------------------------------------------------ bounds
\* how many upserts one behaviour of Spec performs
MaxUpserts == 3

\* ------------------------------------------------------ program constants
\* write_node_set / write_edge_set keep at most this many members of a set
MaxSetMembers == 20

\* ----------------------------------------------------------------- strings
DQ == "\""
SQ == "'"
SEMI == ";"
TAB == "\t"
NL == "\n"

\* the value None of an optional argument
None == <<"None">>

RECURSIVE Remove(_, _)
\* s.replace(ch, "")
Remove(s, ch) ==
    IF s = <<>> THEN <<>>
    ELSE IF Head(s) = ch THEN Remove(Tail(s), ch)
         ELSE <<Head(s)>> \o Remove(Tail(s), ch)

\* attr_val.replace('"', "").replace("'", "")
StripQuotes(s) == Remove(Remove(s, DQ), SQ)

\* set(s) of a str: the set of its characters, each a one-character str
Chars(s) == { <<s[i]>> : i \in 1..Len(s) }

\* ------------------------------------------------------------------ schema
\* The attribute vocabulary, reduced to one identity field, one other
\* single-valued field and two multi-valued fields per store (the code treats
\* all single-valued fields alike and all multi-valued fields alike).
NODE_ATTRIBUTES == <<"curie:ID", "name", "source:string[]", "raw_texts:string[]">>

EDGE_ATTRIBUTES ==
    <<":START_ID", ":END_ID", ":TYPE", "source:string[]", "shared_edges:string[]">>

\* "string[]" in x
HasStringArray(x) == x \in {"source:string[]", "raw_texts:string[]", "shared_edges:string[]"}

\* [x for x in self.attributes if "string[]" in x]
set_attributes(attributes) == SelectSeq(attributes, HasStringArray)

Range(seq) == { seq[i] : i \in 1..Len(seq) }

\* --------------------------------------------------------- incoming records
\* A record handed to update_nodes / update_edges is a dict: a function from
\* some attribute names to values.  The value of a multi-valued attribute is
\* either a str or a set of str (both occur among the callers); it is kept as
\* [isStr, m]: a str s is [isStr |-> TRUE, m |-> {s}].
StrV(s) == [isStr |-> TRUE, m |-> {s}]
SetV(S) == [isStr |-> FALSE, m |-> S]
TheStr(v) == CHOOSE s \in v.m : TRUE

\* new_node.get(attribute, default)
Get(rec, attribute, default) ==
    IF attribute \in DOMAIN rec THEN rec[attribute] ELSE default

\* x or y, on str / None
Or(x, y) == IF x = None \/ x = <<>> THEN y ELSE x

\* ------------------------------------------------------------------- stores
\* A store maps keys to entries; an entry is [cls, attrs]: cls is "dict" for a
\* record made by update_nodes / update_edges and "Node" / "Edge" for one made
\* by load_node_set / load_edge_set (classes with __getitem__ but no get).
\* The argument of an upsert has the same shape, with cls "dict" for a dict.
EmptyStore == [k \in {} |-> {}]

Dict(f) == [cls |-> "dict", attrs |-> f]

EmptyDict == Dict([a \in {} |-> {}])

\* the outcome of a call: the store it leaves and the exception it raised
Outcome(store, exc) == [store |-> store, raised |-> exc]

NoError == "none"

RECURSIVE MergeSets(_, _, _, _, _)
\* the loop over self.set_attributes of an upsert under an existing key;
\* new_node.get raises AttributeError when new_node is a Node / Edge object and
\* attr_val.replace raises it when attr_val is a set
MergeSets(store, key, rec, attrs, i) ==
    IF i > Len(attrs) THEN Outcome(store, NoError)
    ELSE IF rec.cls # "dict" THEN Outcome(store, "AttributeError")
    ELSE LET attribute == attrs[i]
             attr_val == Get(rec.attrs, attribute, StrV(<<>>))
         IN  IF ~attr_val.isStr THEN Outcome(store, "AttributeError")
             ELSE IF StripQuotes(TheStr(attr_val)) = <<>>
                  THEN MergeSets(store, key, rec, attrs, i + 1)
             ELSE IF attribute \notin DOMAIN store[key].attrs
                  THEN Outcome(store, "KeyError")
             ELSE MergeSets(
                         [store EXCEPT ![key].attrs[attribute] = @ \cup {TheStr(attr_val)}],
                         key, rec, attrs, i + 1)

\* the scalar attributes of an entry
ScalarsOf(entry) == { a \in DOMAIN entry.attrs : ~HasStringArray(a) }

\* the multi-valued attributes of an entry
SetsOf(entry) == { a \in DOMAIN entry.attrs : HasStringArray(a) }

\* a plausible slip: the existing-key branch lets the last writer win
MergeExisting_overwrite(store, key, rec, attributes) ==
    LET out == MergeSets(store, key, rec, set_attributes(attributes), 1)
    IN  Outcome([out.store EXCEPT ![key].attrs =
                   [a \in DOMAIN @ |->
                      IF ~HasStringArray(a) /\ Get(rec.attrs, a, <<>>) # <<>>
                      THEN rec.attrs[a] ELSE @[a]]],
                out.raised)

\* a plausible variant: the existing-key branch fills scalar fields still empty
MergeExisting_populate(store, key, rec, attributes) ==
    LET out == MergeSets(store, key, rec, set_attributes(attributes), 1)
    IN  Outcome([out.store EXCEPT ![key].attrs =
                   [a \in DOMAIN @ |->
                      IF ~HasStringArray(a) /\ @[a] = <<>>
                      THEN Get(rec.attrs, a, <<>>) ELSE @[a]]],
                out.raised)

\* the if branch of an upsert: the key exists, only set attributes are visited
MergeExisting(store, key, rec, attributes) ==
    MergeSets(store, key, rec, set_attributes(attributes), 1)

\* the value update_nodes stores for an attribute of a new key
NewNodeAttr(rec, attribute) ==
    IF ~HasStringArray(attribute) THEN Get(rec.attrs, attribute, <<>>)
    ELSE LET attr_val == Get(rec.attrs, attribute, StrV(<<>>))
         IN  IF attr_val # StrV(<<>>)
             THEN (IF attr_val.isStr THEN {TheStr(attr_val)} ELSE attr_val.m)
             ELSE {}

\* the value update_edges stores for an attribute of a new key
NewEdgeAttr(rec, attribute) ==
    IF ~HasStringArray(attribute) THEN Get(rec.attrs, attribute, <<>>)
    ELSE LET attr_val == Get(rec.attrs, attribute, StrV(<<>>))
         IN  IF attr_val # StrV(<<>>)
             THEN (IF attr_val.isStr THEN Chars(TheStr(attr_val)) ELSE attr_val.m)
             ELSE {}

\* the else branch of an upsert: a new key, filled attribute by attribute with
\* the values filled; new_node.get raises when new_node is a Node / Edge object
CreateEntry(store, key, rec, filled) ==
    IF rec.cls # "dict" /\ DOMAIN filled # {}
    THEN Outcome((key :> EmptyDict) @@ store, "AttributeError")
    ELSE Outcome((key :> Dict(filled)) @@ store, NoError)

no_id == <<"n", "o", "_", "i", "d">>
no_start == <<"n", "o", "_", "s", "t", "a", "r", "t">>
no_end == <<"n", "o", "_", "e", "n", "d">>
no_type == <<"n", "o", "_", "t", "y", "p", "e">>

\* a plausible slip: the identity is read with new_node['curie:ID'], which
\* raises when the field is absent
update_nodes_requires_id(store, new_node, new_node_id) ==
    IF Or(new_node_id, <<>>) = <<>> /\ new_node.cls # "dict"
    THEN Outcome(store, "AttributeError")
    ELSE IF Or(new_node_id, <<>>) = <<>> /\ "curie:ID" \notin DOMAIN new_node.attrs
    THEN Outcome(store, "KeyError")
    ELSE LET key == Or(new_node_id, Get(new_node.attrs, "curie:ID", no_id))
         IN  IF key \in DOMAIN store
             THEN MergeExisting(store, key, new_node, NODE_ATTRIBUTES)
             ELSE CreateEntry(store, key, new_node,
                    [a \in Range(NODE_ATTRIBUTES) |-> NewNodeAttr(new_node, a)])

\* NodeSet.update_nodes
update_nodes(store, new_node, new_node_id) ==
    IF Or(new_node_id, <<>>) = <<>> /\ new_node.cls # "dict"
    THEN Outcome(store, "AttributeError")
    ELSE LET key == Or(new_node_id, Get(new_node.attrs, "curie:ID", no_id))
         IN  IF key \in DOMAIN store
             THEN MergeExisting(store, key, new_node, NODE_ATTRIBUTES)
             ELSE CreateEntry(store, key, new_node,
                    [a \in Range(NODE_ATTRIBUTES) |-> NewNodeAttr(new_node, a)])

\* f'{new_edge_id_1}_{new_edge_id_2}:{new_edge_id_3}'
EdgeKey(id_1, id_2, id_3) == id_1 \o <<"_">> \o id_2 \o <<":">> \o id_3

\* EdgeSet.update_edges
update_edges(store, new_edge, new_edge_id) ==
    IF Or(new_edge_id, <<>>) = <<>> /\ new_edge.cls # "dict"
    THEN Outcome(store, "AttributeError")
    ELSE LET new_edge_id_1 == Or(new_edge_id, Get(new_edge.attrs, ":START_ID", no_start))
             new_edge_id_2 == Or(new_edge_id, Get(new_edge.attrs, ":END_ID", no_end))
             new_edge_id_3 == Or(new_edge_id, Get(new_edge.attrs, ":TYPE", no_type))
             key == EdgeKey(new_edge_id_1, new_edge_id_2, new_edge_id_3)
         IN  IF key \in DOMAIN store
             THEN MergeExisting(store, key, new_edge, EDGE_ATTRIBUTES)
             ELSE CreateEntry(store, key, new_edge,
                    [a \in Range(EDGE_ATTRIBUTES) |-> NewEdgeAttr(new_edge, a)])

\* the key an upsert addresses
NodeKeyOf(new_node, new_node_id) ==
    Or(new_node_id, Get(new_node.attrs, "curie:ID", no_id))

EdgeKeyOf(new_edge, new_edge_id) ==
    EdgeKey(Or(new_edge_id, Get(new_edge.attrs, ":START_ID", no_start)),
            Or(new_edge_id, Get(new_edge.attrs, ":END_ID", no_end)),
            Or(new_edge_id, Get(new_edge.attrs, ":TYPE", no_type)))

\* ------------------------------------------------------------------- inputs
NoField == [a \in {} |-> {}]

n1 == <<"n", "1">>

\* a node record: identity, name and source fields, each present or not
NodeRec(i, n, s) == Dict(i @@ n @@ s)

Src(s) == "source:string[]" :> StrV(s)

\* a set of one member more than a file keeps
ManySources ==
    { <<ch>> : ch \in {"a", "b", "c", "d", "e", "f", "g", "h", "i", "j", "k",
                       "l", "m", "n", "o", "p", "q", "r", "s", "t", "u"} }

\* the calls update_nodes(new_node, new_node_id) the callers make; None: the
\* argument is omitted
NodeCalls ==
    { <<NodeRec(i, f[1], f[2]), None>> :
        i \in {NoField, "curie:ID" :> n1},
        f \in {<<NoField, NoField>>,
               <<"name" :> <<"x">>, Src(<<"a", "b">>)>>,
               <<"name" :> <<"y">>, Src(<<"c">>)>>,
               <<NoField, Src(<<"c">>)>>,
               <<"name" :> <<"x">>, NoField>>} }
    \cup
    { <<NodeRec("curie:ID" :> n1, NoField, s), None>> :
        s \in {Src(<<DQ, DQ>>),
               "source:string[]" :> SetV({<<"a", "b">>, <<"c">>}),
               Src(<<"c">>) @@ ("raw_texts:string[]" :> StrV(<<"t">>)),
               Src(<<"c">>) @@ ("raw_texts:string[]" :> SetV({<<"t">>}))} }
    \cup
    { <<NodeRec("curie:ID" :> n1, "name" :> <<"y">>, Src(<<"c">>)), <<"k">>>>,
      <<NodeRec(NoField, NoField, Src(<<"a", "b">>)), <<"k">>>>,
      <<NodeRec(NoField, "name" :> <<"x">>, NoField), <<"k">>>>,
      <<NodeRec("curie:ID" :> n1, NoField, "source:string[]" :> SetV(ManySources)), None>> }

\* an edge record: start, end and type fields and the rest
EdgeRec(h, t, r, s) == Dict(h @@ t @@ r @@ s)

Start(x) == ":START_ID" :> x
End(x) == ":END_ID" :> x
Type(x) == ":TYPE" :> x
P == <<"p">>
Q == <<"q">>
R == <<"r">>

\* the calls update_edges(new_edge, new_edge_id) the callers make
EdgeCalls ==
    { <<EdgeRec(e[1], e[2], Type(R), s), None>> :
        e \in {<<Start(P), End(Q)>>, <<Start(Q), End(P)>>, <<Start(P), NoField>>},
        s \in {NoField, Src(<<"a", "b">>), Src(<<"c">>)} }
    \cup
    { <<EdgeRec(Start(P), End(Q), Type(R), s), None>> :
        s \in {Src(<<DQ, DQ>>),
               "source:string[]" :> SetV({<<"a", "b">>, <<"c">>}),
               Src(<<"c">>) @@ ("shared_edges:string[]" :> StrV(<<"r", ":", "X">>))} }
    \cup
    { <<EdgeRec(NoField, End(Q), NoField, Src(<<"c">>)), None>>,
      <<EdgeRec(Start(P), NoField, Type(R), Src(<<"c">>)), <<"k">>>>,
      <<EdgeRec(Start(Q), End(P), Type(R), Src(<<"a", "b">>)), <<"k">>>>,
      <<EdgeRec(Start(<<"p", "_", "q">>), End(Q), Type(R), Src(<<"c">>)), None>>,
      <<EdgeRec(Start(P), End(<<"q", "_", "q">>), Type(R), Src(<<"c">>)), None>> }

\* ------------------------------------------------------------------- state
VARIABLES
    nodes,   \* NodeSet.nodes of the graph under construction
    edges,   \* EdgeSet.edges of the graph under construction
    raised,  \* the exception the last call raised, or NoError
    calls,   \* the upserts made so far: name, arguments, key, and whether the
             \* key existed when the call was made
    files,      \* the files written: path -> [header, text]
    node_set2,  \* the nodes of a second NodeSet (a fresh one that is loaded into)
    edge_set2,  \* the edges of a second EdgeSet
    pc,         \* where the script that writes and reloads the graph stands
    proj,       \* the arguments of the last get_graph_for_source call
    edges_df,                  \* jacquard_sim.py: the rows of the edge table
    related_project_edges_df,  \* the rows of the table of known related studies
    project_to_edges_map,      \* project id -> entity -> set of edge types
    all_project_ids,           \* the set of project ids, in its iteration order
    edge_weights,              \* edge type -> weight, counted in halves
    name_maps,                 \* entity -> name
    cutoff,                    \* the score cutoff, a fraction [num, den]
    todo,                      \* the pairs the loop has yet to score
    res,                       \* the list res of the script
    edges_out,                 \* the list edges of the script
    batch,              \* get_vcf_data / get_dicom_data: the arguments of the run
                        \* and the files get_project_files lists
    project,            \* how many projects the outer loop has taken up
    project_files,      \* the files of the project at hand
    next_file,          \* the position of the inner loop in project_files
    process_files,      \* the list of status entries
    dicom_identifiers,  \* the set of series identifiers of get_dicom_data
    data_source,        \* vcf_data.py: the members of the module-level set
    ident,              \* <<key, attribute>> -> the set object that field of
                        \* the node store is
    frame               \* the node store before the last update_nodes of an
                        \* extractor, and the key that call addressed

NoProjection == [source_name |-> None, strict |-> TRUE, mixed |-> FALSE]

storeVars == <<nodes, edges, raised, calls>>
serialVars == <<files, node_set2, edge_set2, pc, proj>>
scorerVars == <<edges_df, related_project_edges_df, project_to_edges_map,
               all_project_ids, edge_weights, name_maps, cutoff, todo, res, edges_out>>
batchVars == <<batch, project, project_files, next_file, process_files,
              dicom_identifiers, data_source, ident, frame>>
vars == <<storeVars, serialVars, scorerVars, batchVars>>

InitStore ==
    /\ nodes = EmptyStore
    /\ edges = EmptyStore
    /\ raised = NoError
    /\ calls = <<>>

InitSerial ==
    /\ files = EmptyStore
    /\ node_set2 = EmptyStore
    /\ edge_set2 = EmptyStore
    /\ pc = "build"
    /\ proj = NoProjection

\* the scorer's globals before its script has run
InitScorer ==
    /\ edges_df = {}
    /\ related_project_edges_df = {}
    /\ project_to_edges_map = EmptyStore
    /\ all_project_ids = <<>>
    /\ edge_weights = EmptyStore
    /\ name_maps = EmptyStore
    /\ cutoff = [num |-> 0, den |-> 1]
    /\ todo = <<>>
    /\ res = <<>>
    /\ edges_out = <<>>

vcf_data == <<"v", "d">>
dicom_data == <<"d", "d">>
experimental_data == <<"e", "d">>

NoBatch == [extractor |-> "none"]

\* the extractors' state before a run: data_source = set(["vcf_data",
\* "experimental_data"]) is made when vcf_data.py is imported
InitBatch ==
    /\ batch = NoBatch
    /\ project = 0
    /\ project_files = <<>>
    /\ next_file = 1
    /\ process_files = <<>>
    /\ dicom_identifiers = {}
    /\ data_source = {vcf_data, experimental_data}
    /\ ident = EmptyStore
    /\ frame = [before |-> EmptyStore, key |-> None]

Init == InitStore /\ InitSerial /\ InitScorer /\ InitBatch

Call(op, rec, id, key, existed) ==
    [op |-> op, rec |-> rec, id |-> id, key |-> key, existed |-> existed]

\* a call of node_set.update_nodes(new_node, new_node_id)
CallUpdateNodes ==
    /\ raised = NoError
    /\ \E call \in NodeCalls :
         LET new_node == call[1]
             new_node_id == call[2]
             out == update_nodes(nodes, new_node, new_node_id)
             key == NodeKeyOf(new_node, new_node_id)
         IN  /\ nodes' = out.store
             /\ raised' = out.raised
             /\ calls' = Append(calls, Call("update_nodes", new_node, new_node_id,
                                            key, key \in DOMAIN nodes))
    /\ UNCHANGED edges

\* a call of edge_set.update_edges(new_edge, new_edge_id)
CallUpdateEdges ==
    /\ raised = NoError
    /\ \E call \in EdgeCalls :
         LET new_edge == call[1]
             new_edge_id == call[2]
             out == update_edges(edges, new_edge, new_edge_id)
             key == EdgeKeyOf(new_edge, new_edge_id)
         IN  /\ edges' = out.store
             /\ raised' = out.raised
             /\ calls' = Append(calls, Call("update_edges", new_edge, new_edge_id,
                                            key, key \in DOMAIN edges))
    /\ UNCHANGED nodes

\* the last call made
last == IF calls = <<>> THEN Call("none", EmptyDict, None, None, FALSE)
        ELSE calls[Len(calls)]

\* node_set.update_nodes(new_node, new_node_id), by an extractor
UpdateNodes ==
    /\ Len(calls) < MaxUpserts
    /\ CallUpdateNodes
    /\ UNCHANGED serialVars
    /\ UNCHANGED scorerVars
    /\ UNCHANGED batchVars

\* edge_set.update_edges(new_edge, new_edge_id), by an extractor
UpdateEdges ==
    /\ Len(calls) < MaxUpserts
    /\ CallUpdateEdges
    /\ UNCHANGED serialVars
    /\ UNCHANGED scorerVars
    /\ UNCHANGED batchVars

Next == UpdateNodes \/ UpdateEdges

Spec == Init /\ [][Next]_vars

\* ------------------------------------------------- claims on the entity store
\* a call whose record gives every multi-valued field as a str
StringValued(call) ==
    \A a \in DOMAIN call[1].attrs : HasStringArray(a) => call[1].attrs[a].isStr

NodeUpsert(store, call) == update_nodes(store, call[1], call[2]).store
EdgeUpsert(store, call) == update_edges(store, call[1], call[2]).store
NodeCallKey(call) == NodeKeyOf(call[1], call[2])
EdgeCallKey(call) == EdgeKeyOf(call[1], call[2])

\* C1: merge idempotence.  From the store reached, upserting a record twice in
\* a row leaves the same store (keys and every field) as upserting it once, in
\* the node store and in the edge store.
C1_MergeIdempotent ==
    /\ \A call \in NodeCalls : StringValued(call) =>
         NodeUpsert(NodeUpsert(nodes, call), call) = NodeUpsert(nodes, call)
    /\ \A call \in EdgeCalls : StringValued(call) =>
         EdgeUpsert(EdgeUpsert(edges, call), call) = EdgeUpsert(edges, call)

\* the (start, end, type) triple of a record: the identity fields it gives
TripleOf(rec) ==
    [a \in {":START_ID", ":END_ID", ":TYPE"} \cap DOMAIN rec.attrs |-> rec.attrs[a]]

\* the edge upserts made so far without an explicit key
KeylessEdgeCalls ==
    { i \in 1..Len(calls) : calls[i].op = "update_edges" /\ calls[i].id = None }

\* C12: edge identity is the ordered triple.  Two edge upserts made without an
\* explicit key address the same store record if and only if their (start,
\* end, type) triples are equal; (a, b, t) and (b, a, t) with a # b are two
\* records.
C12_EdgeIdentity ==
    \A i \in KeylessEdgeCalls, j \in KeylessEdgeCalls :
       (calls[i].key = calls[j].key) <=> (TripleOf(calls[i].rec) = TripleOf(calls[j].rec))

\* the component of an identity a record gives, or the placeholder
Component(rec, a, placeholder) ==
    IF a \in DOMAIN rec.attrs THEN rec.attrs[a] ELSE placeholder

\* the key of a keyless upsert, spelt out with the placeholders
PlaceholderKey(call) ==
    IF call.op = "update_nodes"
    THEN Component(call.rec, "curie:ID", no_id)
    ELSE Component(call.rec, ":START_ID", no_start) \o <<"_">>
           \o Component(call.rec, ":END_ID", no_end) \o <<":">>
           \o Component(call.rec, ":TYPE", no_type)

\* a keyless upsert of a string-valued dict record that lacks an identity field
LacksIdentity(call) ==
    /\ call.id = None
    /\ call.rec.cls = "dict"
    /\ \A a \in DOMAIN call.rec.attrs : HasStringArray(a) => call.rec.attrs[a].isStr
    /\ IF call.op = "update_nodes"
       THEN "curie:ID" \notin DOMAIN call.rec.attrs
       ELSE {":START_ID", ":END_ID", ":TYPE"} \ DOMAIN call.rec.attrs # {}

\* the store a call was made on
StoreOf(call) == IF call.op = "update_nodes" THEN nodes ELSE edges

AllStringValued ==
    \A i \in 1..Len(calls) :
       \A a \in DOMAIN calls[i].rec.attrs :
          HasStringArray(a) => calls[i].rec.attrs[a].isStr

\* no multi-valued field of the store holds a member that is empty once its
\* quote characters are removed
NoEmptyMember(store) ==
    \A k \in DOMAIN store : \A a \in SetsOf(store[k]) :
       \A member \in store[k].attrs[a] : StripQuotes(member) # <<>>

\* C14: after any sequence of upserts of string-valued records into the node
\* or edge store, no multi-valued field of any stored record contains a member
\* that is empty after removing double-quote and single-quote characters,
\* whether the value came with the upsert that created the key or a later one.
C14_NoEmptyMember ==
    AllStringValued => NoEmptyMember(nodes) /\ NoEmptyMember(edges)

\* the upserts made so far with an explicit key that did not raise
ExplicitKeyCalls ==
    { i \in 1..Len(calls) : calls[i].id # None /\ (i = Len(calls) => raised = NoError) }

\* C16: when an upsert is called with an explicit key k, the record is created
\* or merged under exactly the key k, in the node store and in the edge store:
\* the store holds a record under k, and k is the key the call addressed.
C16_ExplicitKey ==
    \A i \in ExplicitKeyCalls :
       /\ calls[i].id \in DOMAIN StoreOf(calls[i])
       /\ calls[i].key = calls[i].id

\* the multi-valued fields a call gave as a non-empty str
StrFields(call) ==
    { a \in DOMAIN call.rec.attrs :
        /\ HasStringArray(a)
        /\ call.rec.attrs[a].isStr
        /\ TheStr(call.rec.attrs[a]) # <<>> }

\* C26: on the upsert that creates a key, a non-empty string value v supplied
\* for a multi-valued field is stored as the one-member set {v}, in the node
\* store and in the edge store alike.
C26_StringStoredAsSingleton ==
    (/\ last.op # "none"
     /\ last.rec.cls = "dict"
     /\ ~last.existed
     /\ raised = NoError)
    => \A a \in StrFields(last) :
          a \in DOMAIN StoreOf(last)[last.key].attrs
          => StoreOf(last)[last.key].attrs[a] = {TheStr(last.rec.attrs[a])}

RECURSIVE StoreBefore(_, _)
\* the store of the kind op as it stood before the i-th upsert was made
StoreBefore(op, i) ==
    IF i <= 1 THEN EmptyStore
    ELSE LET before == StoreBefore(op, i - 1)
             call == calls[i - 1]
         IN  IF call.op # op THEN before
             ELSE IF op = "update_nodes"
                  THEN update_nodes(before, call.rec, call.id).store
                  ELSE update_edges(before, call.rec, call.id).store

\* the multi-valued fields a call gave as a set of str
SetValuedFields(call) ==
    { a \in DOMAIN call.rec.attrs :
        HasStringArray(a) /\ ~call.rec.attrs[a].isStr }

\* C27: upserting a record whose multi-valued field is given as a set of
\* strings under a key that already exists completes without raising and
\* leaves the stored set equal to the union of its previous members and the
\* supplied members.
C27_SetValuedMerge ==
    (/\ last.op # "none"
     /\ last.rec.cls = "dict"
     /\ last.existed
     /\ SetValuedFields(last) # {})
    => /\ raised = NoError
       /\ \A a \in SetValuedFields(last) :
             StoreOf(last)[last.key].attrs[a] =
                StoreBefore(last.op, Len(calls))[last.key].attrs[a]
                   \cup last.rec.attrs[a].m

\* the sets of the multi-valued fields of the entry under key
SetFields(store, key) == [a \in SetsOf(store[key]) |-> store[key].attrs[a]]

\* the store the last call acted on
LastStore == IF last.op = "update_nodes" THEN nodes ELSE edges

\* the two upserts made so far were string-valued upserts into the same store
\* under the same key
TwoUnderOneKey ==
    /\ Len(calls) = 2
    /\ raised = NoError
    /\ calls[1].op = calls[2].op
    /\ calls[1].key = calls[2].key
    /\ \A i \in 1..2 : StringValued(<<calls[i].rec, calls[i].id>>)

\* the store the same two upserts leave when made in the other order
Swapped ==
    LET c1 == <<calls[1].rec, calls[1].id>>
        c2 == <<calls[2].rec, calls[2].id>>
    IN  IF calls[1].op = "update_nodes"
        THEN NodeUpsert(NodeUpsert(EmptyStore, c2), c1)
        ELSE EdgeUpsert(EdgeUpsert(EmptyStore, c2), c1)

\* C2: merge commutativity for multi-valued fields.  Two records with the same
\* identity key, upserted into an empty store in either order, leave the same
\* set in every multi-valued field of that key, in both stores.
C2_MergeCommutative ==
    TwoUnderOneKey =>
       SetFields(LastStore, calls[1].key) = SetFields(Swapped, calls[1].key)

\* every key of the store is kept by the step, with every single-valued field
ScalarsKept(store, store2) ==
    \A k \in DOMAIN store :
       /\ k \in DOMAIN store2
       /\ \A a \in ScalarsOf(store[k]) : store2[k].attrs[a] = store[k].attrs[a]

\* C3: first writer wins for single-valued fields.  Once a key exists in the
\* node or edge store, no upsert changes a single-valued field of its record:
\* a non-empty value is never replaced, and the value written by the upsert
\* that created the key is the one kept.
C3_FirstWriterWins ==
    [][ScalarsKept(nodes, nodes') /\ ScalarsKept(edges, edges')]_vars

\* a later upsert offered a different non-empty value for a single-valued field
\* that was already set, in the node store and in the edge store
C3_Witness ==
    /\ last.op \in {"update_nodes", "update_edges"}
    /\ last.existed
    /\ raised = NoError
    /\ \E a \in ScalarsOf(LastStore[last.key]) :
         /\ LastStore[last.key].attrs[a] # <<>>
         /\ Get(last.rec.attrs, a, <<>>) # <<>>
         /\ Get(last.rec.attrs, a, <<>>) # LastStore[last.key].attrs[a]

\* the calls that offer a non-empty value for an empty single-valued field a of
\* an existing key
OffersForEmpty(store, rec, key, a) ==
    /\ key \in DOMAIN store
    /\ a \in ScalarsOf(store[key])
    /\ store[key].attrs[a] = <<>>
    /\ Get(rec.attrs, a, <<>>) # <<>>

\* C4 as stated: an upsert under an existing key whose single-valued field is
\* still empty stores the incoming non-empty value in that field.
C4_LaterWriterPopulates ==
    /\ \A call \in NodeCalls : \A a \in Range(NODE_ATTRIBUTES) :
         OffersForEmpty(nodes, call[1], NodeCallKey(call), a) =>
            NodeUpsert(nodes, call)[NodeCallKey(call)].attrs[a] = call[1].attrs[a]
    /\ \A call \in EdgeCalls : \A a \in Range(EDGE_ATTRIBUTES) :
         OffersForEmpty(edges, call[1], EdgeCallKey(call), a) =>
            EdgeUpsert(edges, call)[EdgeCallKey(call)].attrs[a] = call[1].attrs[a]

\* C4 amended: an upsert under an existing key whose single-valued field is
\* still empty leaves that field empty; the incoming value is dropped.
C4_EmptyScalarStaysEmpty ==
    /\ \A call \in NodeCalls : \A a \in Range(NODE_ATTRIBUTES) :
         OffersForEmpty(nodes, call[1], NodeCallKey(call), a) =>
            NodeUpsert(nodes, call)[NodeCallKey(call)].attrs[a] = <<>>
    /\ \A call \in EdgeCalls : \A a \in Range(EDGE_ATTRIBUTES) :
         OffersForEmpty(edges, call[1], EdgeCallKey(call), a) =>
            EdgeUpsert(edges, call)[EdgeCallKey(call)].attrs[a] = <<>>

\* an upsert under an existing key has offered a name for a record whose name
\* is empty, and has returned
C4_Witness ==
    /\ last.op \in {"update_nodes", "update_edges"}
    /\ last.existed
    /\ raised = NoError
    /\ \E a \in ScalarsOf(LastStore[last.key]) :
         /\ LastStore[last.key].attrs[a] = <<>>
         /\ Get(last.rec.attrs, a, <<>>) # <<>>

\* --------------------------------------------------------------- serializer
RECURSIVE SetToSeq(_)
\* list(val): the members of a set, one after the other.  The order of a Python
\* set is unspecified; load rebuilds a set from them, so the members are listed
\* here in one fixed order and which members are kept is left open (KeptMembers).
SetToSeq(S) ==
    IF S = {} THEN <<>>
    ELSE LET x == CHOOSE y \in S : TRUE IN <<x>> \o SetToSeq(S \ {x})

RECURSIVE Join(_, _)
\* sep.join(strs)
Join(strs, sep) ==
    IF strs = <<>> THEN <<>>
    ELSE IF Len(strs) = 1 THEN strs[1]
    ELSE strs[1] \o sep \o Join(Tail(strs), sep)

RECURSIVE Split(_, _)
\* s.split(sep), for a one-character sep
Split(s, sep) ==
    IF \A i \in 1..Len(s) : s[i] # sep THEN <<s>>
    ELSE LET i == CHOOSE j \in 1..Len(s) : s[j] = sep /\ \A h \in 1..(j - 1) : s[h] # sep
         IN  <<SubSeq(s, 1, i - 1)>> \o Split(SubSeq(s, i + 1, Len(s)), sep)

\* a plausible slip: every member is written, however many there are
KeptMembers_all(val) ==
    {val}

RECURSIVE KeptMembers(_)
\* list(val)[:20] when len(val) > 20, else val: the member sets that may be kept
KeptMembers(val) ==
    IF Cardinality(val) <= MaxSetMembers THEN {val}
    ELSE UNION { KeptMembers(val \ {x}) : x \in val }

\* the text written for one value
CellTexts(val, attribute) ==
    IF HasStringArray(attribute)
    THEN { Remove(<<DQ>> \o Join(SetToSeq(kept), <<SEMI>>) \o <<DQ>>, NL) :
             kept \in KeptMembers(val) }
    ELSE { Remove(val, NL) }

RECURSIVE RowTexts(_, _, _)
\* write_str after the loop over the columns, from column i on
RowTexts(entry, attributes, i) ==
    IF i > Len(attributes) THEN { <<>> }
    ELSE { cell \o <<TAB>> \o rest :
             cell \in CellTexts(entry.attrs[attributes[i]], attributes[i]),
             rest \in RowTexts(entry, attributes, i + 1) }

\* write_str[:-1] + "\n"
RowLines(entry, attributes) ==
    { SubSeq(t, 1, Len(t) - 1) \o <<NL>> : t \in RowTexts(entry, attributes, 1) }

RECURSIVE Orders(_)
\* the orders in which the keys of a dict may have been inserted
Orders(S) ==
    IF S = {} THEN { <<>> }
    ELSE UNION { { <<x>> \o o : o \in Orders(S \ {x}) } : x \in S }

RECURSIVE BodyTexts(_, _, _)
BodyTexts(store, attributes, order) ==
    IF order = <<>> THEN { <<>> }
    ELSE { row \o rest : row \in RowLines(store[Head(order)], attributes),
                         rest \in BodyTexts(store, attributes, Tail(order)) }

\* NodeSet.write_node_set / EdgeSet.write_edge_set: the files it may write
write_set(store, attributes) ==
    { [header |-> attributes, text |-> t] :
        t \in UNION { BodyTexts(store, attributes, o) : o \in Orders(DOMAIN store) } }

\* what read_csv takes for a missing value
NaStrings ==
    { <<>>, <<"N", "A">>, <<"N", "/", "A">>, <<"N", "a", "N">>, <<"n", "a", "n">>,
      <<"n", "/", "a">>, <<"N", "U", "L", "L">>, <<"n", "u", "l", "l">>,
      <<"N", "o", "n", "e">> }

RECURSIVE Tokenize(_, _, _, _, _, _)
\* the tokenizer of pandas.read_csv(sep="\t"), default quoting: a field that
\* starts with a double quote is quoted, "" inside it is one quote, and tabs and
\* newlines inside it belong to the field
Tokenize(text, i, state, cur, fields, rows) ==
    IF i > Len(text)
    THEN IF state \in {"IN_QUOTED_FIELD"} THEN [rows |-> rows, raised |-> "ParserError"]
         ELSE IF state = "START_RECORD" THEN [rows |-> rows, raised |-> NoError]
         ELSE [rows |-> Append(rows, Append(fields, cur)), raised |-> NoError]
    ELSE LET c == text[i]
         IN  CASE state = "START_RECORD" /\ c = NL ->
                    Tokenize(text, i + 1, "START_RECORD", <<>>, <<>>, rows)
               [] state \in {"START_RECORD", "START_FIELD"} /\ c = DQ ->
                    Tokenize(text, i + 1, "IN_QUOTED_FIELD", cur, fields, rows)
               [] state = "IN_QUOTED_FIELD" /\ c = DQ ->
                    Tokenize(text, i + 1, "QUOTE_IN_QUOTED_FIELD", cur, fields, rows)
               [] state = "IN_QUOTED_FIELD" /\ c # DQ ->
                    Tokenize(text, i + 1, "IN_QUOTED_FIELD", Append(cur, c), fields, rows)
               [] state = "QUOTE_IN_QUOTED_FIELD" /\ c = DQ ->
                    Tokenize(text, i + 1, "IN_QUOTED_FIELD", Append(cur, c), fields, rows)
               [] state # "IN_QUOTED_FIELD" /\ c = TAB ->
                    Tokenize(text, i + 1, "START_FIELD", <<>>, Append(fields, cur), rows)
               [] state \notin {"START_RECORD", "IN_QUOTED_FIELD"} /\ c = NL ->
                    Tokenize(text, i + 1, "START_RECORD", <<>>, <<>>,
                             Append(rows, Append(fields, cur)))
               [] OTHER ->
                    Tokenize(text, i + 1, "IN_FIELD", Append(cur, c), fields, rows)

\* df.fillna(value=""), on one field
FillNa(field) == IF field \in NaStrings THEN <<>> ELSE field

\* pandas.read_csv(path, sep="\t", index_col=False) and df.fillna(value=""):
\* the rows of the frame, short rows padded, or the parser's error
read_csv(file) ==
    LET tok == Tokenize(file.text, 1, "START_RECORD", <<>>, <<>>, <<>>)
        width == Len(file.header)
    IN  IF tok.raised # NoError THEN tok
        ELSE IF \E r \in 1..Len(tok.rows) : Len(tok.rows[r]) > width
        THEN [rows |-> <<>>, raised |-> "ParserError"]
        ELSE [rows |-> [r \in 1..Len(tok.rows) |->
                          [c \in 1..width |->
                             IF c <= Len(tok.rows[r]) THEN FillNa(tok.rows[r][c])
                             ELSE <<>>]],
              raised |-> NoError]

\* the attributes load gives a row: multi-valued fields are split on ";" after
\* quote characters are removed
LoadedAttrs(row, attributes) ==
    [a \in Range(attributes) |->
       LET i == CHOOSE j \in 1..Len(attributes) : attributes[j] = a
       IN  IF HasStringArray(a) THEN Range(Split(StripQuotes(row[i]), SEMI))
           ELSE row[i]]

\* curie = row.iloc[0]
LoadedNodeKey(row) == row[1]

\* edge_id = f'{head}_{tail}_{relation}'
LoadedEdgeKey(row) == row[1] \o <<"_">> \o row[2] \o <<"_">> \o row[3]

RECURSIVE LoadRows(_, _, _, _, _)
\* for _, row in df.iterrows(): each row replaces the entry under its key
LoadRows(store, rows, attributes, cls, i) ==
    IF i > Len(rows) THEN store
    ELSE LET key == IF cls = "Node" THEN LoadedNodeKey(rows[i])
                    ELSE LoadedEdgeKey(rows[i])
             entry == [cls |-> cls, attrs |-> LoadedAttrs(rows[i], attributes)]
         IN  LoadRows((key :> entry) @@ store, rows, attributes, cls, i + 1)

\* os.path.exists(self.path), then the load; a missing file leaves the store
load_set(store, fs, path, attributes, cls) ==
    IF path \notin DOMAIN fs THEN Outcome(store, NoError)
    ELSE LET df == read_csv(fs[path])
         IN  IF df.raised # NoError THEN Outcome(store, df.raised)
             ELSE Outcome(LoadRows(store, df.rows, attributes, cls, 1), NoError)

\* NodeSet.load_node_set
load_node_set(store, fs, path) == load_set(store, fs, path, NODE_ATTRIBUTES, "Node")

\* EdgeSet.load_edge_set
load_edge_set(store, fs, path) == load_set(store, fs, path, EDGE_ATTRIBUTES, "Edge")

\* ----------------------------------------- the graph written and read back
\* how many upserts build the graph that is written
MaxStored == 2

\* an upsert into the graph that is going to be written
SerialUpdateNodes ==
    /\ pc = "build"
    /\ Len(calls) < MaxStored
    /\ CallUpdateNodes
    /\ UNCHANGED serialVars
    /\ UNCHANGED scorerVars
    /\ UNCHANGED batchVars

SerialUpdateEdges ==
    /\ pc = "build"
    /\ Len(calls) < MaxStored
    /\ CallUpdateEdges
    /\ UNCHANGED serialVars
    /\ UNCHANGED scorerVars
    /\ UNCHANGED batchVars

\* a file path: directory, "nodes" or "edges", and what follows the underscore
\* (nothing for nodes.tsv / edges.tsv)
Path(dir, prefix, suffix) == <<dir, prefix, suffix>>

RESOURCE_PATH == "graph"
ARTIFACTS_PATH == "artifacts"

\* the directory after write_node_set and write_edge_set have written ns and es
\* as the files nf and ef
Written(fs, dir, suffix, nf, ef) ==
    (Path(dir, "nodes", suffix) :> nf) @@ (Path(dir, "edges", suffix) :> ef) @@ fs

\* write_graph(node_set, edge_set): the else branch, both stores are written
WriteGraph ==
    /\ pc = "build"
    /\ raised = NoError
    /\ \E nf \in write_set(nodes, NODE_ATTRIBUTES), ef \in write_set(edges, EDGE_ATTRIBUTES) :
         files' = Written(files, RESOURCE_PATH, <<>>, nf, ef)
    /\ pc' = "written"
    /\ UNCHANGED <<storeVars, node_set2, edge_set2, proj>>
    /\ UNCHANGED scorerVars
    /\ UNCHANGED batchVars

\* load_graph(): a fresh NodeSet and a fresh EdgeSet are loaded from the files
LoadGraph ==
    /\ pc = "written"
    /\ LET n == load_node_set(EmptyStore, files, Path(RESOURCE_PATH, "nodes", <<>>))
           e == load_edge_set(EmptyStore, files, Path(RESOURCE_PATH, "edges", <<>>))
       IN  /\ node_set2' = n.store
           /\ edge_set2' = IF n.raised = NoError THEN e.store ELSE EmptyStore
           /\ raised' = IF n.raised # NoError THEN n.raised ELSE e.raised
    /\ pc' = "loaded"
    /\ UNCHANGED <<nodes, edges, calls, files, proj>>
    /\ UNCHANGED scorerVars
    /\ UNCHANGED batchVars

\* an extractor of assemble_nf_kg.py upserts an edge into the loaded EdgeSet
LoadedUpdateEdges ==
    /\ pc = "loaded"
    /\ raised = NoError
    /\ \E call \in EdgeCalls :
         \E out \in {update_edges(edge_set2, call[1], call[2])} :
            /\ edge_set2' = out.store
            /\ raised' = out.raised
            /\ calls' = Append(calls, Call("update_edges", call[1], call[2],
                                           EdgeKeyOf(call[1], call[2]),
                                           EdgeKeyOf(call[1], call[2]) \in DOMAIN edge_set2))
    /\ pc' = "extended"
    /\ UNCHANGED <<nodes, edges, files, node_set2, proj>>
    /\ UNCHANGED scorerVars
    /\ UNCHANGED batchVars

NextSerial ==
    SerialUpdateNodes \/ SerialUpdateEdges \/ WriteGraph \/ LoadGraph \/ LoadedUpdateEdges

SpecSerial == Init /\ [][NextSerial]_vars

\* ---------------------------------------------------- claims on the serializer
\* no semicolon, quote, tab or newline character in s
PlainStr(s) == \A i \in 1..Len(s) : s[i] \notin {SEMI, DQ, SQ, TAB, NL}

\* a store the round trip is promised for: every multi-valued field has at
\* most 20 members, and no value holds a semicolon, quote, tab or newline
RoundTripInput(store) ==
    \A k \in DOMAIN store :
       /\ PlainStr(k)
       /\ \A a \in ScalarsOf(store[k]) : PlainStr(store[k].attrs[a])
       /\ \A a \in SetsOf(store[k]) :
            /\ Cardinality(store[k].attrs[a]) <= MaxSetMembers
            /\ \A m \in store[k].attrs[a] : PlainStr(m)

\* the same key set and, under every key, the same value in every field
SameRecords(s1, s2) ==
    /\ DOMAIN s1 = DOMAIN s2
    /\ \A k \in DOMAIN s1 : s1[k].attrs = s2[k].attrs

\* C5: round trip.  A store within the limits (RoundTripInput), written to a
\* file and read into a fresh store, comes back equal: the same keys, and under
\* every key the same single-valued fields and the same sets.
C5_RoundTrip ==
    (pc = "loaded" /\ RoundTripInput(nodes) /\ RoundTripInput(edges)) =>
       (SameRecords(node_set2, nodes) /\ SameRecords(edge_set2, edges))

\* the record under key k is stored under the value of its first column, and
\* is the only record of the store with that first column
KeyedByIdentity(store, k) ==
    /\ store[k].attrs["curie:ID"] = k
    /\ \A j \in DOMAIN store : store[j].attrs["curie:ID"] = k => j = k

LoadedEdges == load_edge_set(EmptyStore, files, Path(RESOURCE_PATH, "edges", <<>>)).store

\* the records of store whose start, end and type are those of rec
WithTriple(store, rec) ==
    { k \in DOMAIN store :
        /\ {":START_ID", ":END_ID", ":TYPE"} \subseteq DOMAIN store[k].attrs
        /\ TripleOf(store[k]) = TripleOf(rec) }

\* the last upsert was made into the loaded EdgeSet, without an explicit key,
\* for a (start, end, type) that a loaded record has
UpsertOfLoadedTriple ==
    /\ pc = "extended"
    /\ last.rec.cls = "dict"
    /\ last.id = None
    /\ {":START_ID", ":END_ID", ":TYPE"} \subseteq DOMAIN last.rec.attrs
    /\ WithTriple(LoadedEdges, last.rec) # {}

\* C25: loaded and upserted edges share one key space.  After load_edge_set
\* has loaded an edge (s, e, t), upserting a record with the same (start, end,
\* type) merges into the loaded record: the edge store still holds exactly one
\* record for that triple and its size is unchanged.
C25_OneKeySpace ==
    UpsertOfLoadedTriple =>
       /\ Cardinality(WithTriple(edge_set2, last.rec)) = 1
       /\ Cardinality(DOMAIN edge_set2) = Cardinality(DOMAIN LoadedEdges)

\* -------------------------------------------------------- source projection
\* a plausible slip: strict mode rejects every record that has a source at all
Selected_off_by_one(entry, source_name, strict, mixed) ==
    LET source == entry.attrs["source:string[]"]
    IN  IF ~mixed
        THEN IF strict /\ Cardinality(source) >= 1 THEN FALSE
             ELSE IF source_name \notin source THEN FALSE
             ELSE TRUE
        ELSE Cardinality(source) > 1

\* a plausible slip: the strict flag is not looked at
Selected_ignores_strict(entry, source_name, strict, mixed) ==
    LET source == entry.attrs["source:string[]"]
    IN  IF ~mixed
        THEN source_name \in source
        ELSE Cardinality(source) > 1

\* whether get_graph_for_source adds a record to the filtered store
Selected(entry, source_name, strict, mixed) ==
    LET source == entry.attrs["source:string[]"]
    IN  IF ~mixed
        THEN IF strict /\ Cardinality(source) > 1 THEN FALSE
             ELSE IF source_name \notin source THEN FALSE
             ELSE TRUE
        ELSE Cardinality(source) > 1

\* the loop over a store of get_graph_for_source: the filtered store, or the
\* KeyError of a record without the source attribute
FilterStore(store, source_name, strict, mixed) ==
    IF \E k \in DOMAIN store : "source:string[]" \notin DOMAIN store[k].attrs
    THEN Outcome(EmptyStore, "KeyError")
    ELSE Outcome(
           [k \in { j \in DOMAIN store : Selected(store[j], source_name, strict, mixed) }
              |-> store[k]],
           NoError)

\* a plausible slip: the selected records are moved out of the input stores
get_graph_for_source_moves(node_set, edge_set, source_name, strict, mixed) ==
    LET ns == FilterStore(node_set, source_name, strict, mixed)
        es == FilterStore(edge_set, source_name, strict, mixed)
    IN  [nodes |-> ns.store,
         edges |-> IF ns.raised = NoError THEN es.store ELSE EmptyStore,
         raised |-> IF ns.raised # NoError THEN ns.raised ELSE es.raised,
         node_set |-> [k \in DOMAIN node_set \ DOMAIN ns.store |-> node_set[k]],
         edge_set |-> [k \in DOMAIN edge_set \ DOMAIN es.store |-> edge_set[k]]]

\* get_graph_for_source(node_set, edge_set, source_name, strict, mixed): the two
\* filtered stores, the exception raised, and the two argument stores as the
\* call leaves them (the loops only read them)
get_graph_for_source(node_set, edge_set, source_name, strict, mixed) ==
    LET ns == FilterStore(node_set, source_name, strict, mixed)
        es == FilterStore(edge_set, source_name, strict, mixed)
    IN  [nodes |-> ns.store,
         edges |-> IF ns.raised = NoError THEN es.store ELSE EmptyStore,
         raised |-> IF ns.raised # NoError THEN ns.raised ELSE es.raised,
         node_set |-> node_set,
         edge_set |-> edge_set]

\* the source names asked for
SourceNames == { <<"a", "b">>, <<"c">>, <<"a">>, None }

\* filter_node_set, filter_edge_set = get_graph_for_source(...)
GetGraphForSource ==
    /\ pc = "build"
    /\ raised = NoError
    /\ \E source_name \in SourceNames, strict \in BOOLEAN, mixed \in BOOLEAN :
         \E out \in {get_graph_for_source(nodes, edges, source_name, strict, mixed)} :
             /\ node_set2' = out.nodes
             /\ edge_set2' = out.edges
             /\ raised' = out.raised
             /\ nodes' = out.node_set
             /\ edges' = out.edge_set
             /\ proj' = [source_name |-> source_name, strict |-> strict, mixed |-> mixed]
    /\ pc' = "projected"
    /\ UNCHANGED <<calls, files>>
    /\ UNCHANGED scorerVars
    /\ UNCHANGED batchVars

NextProject == SerialUpdateNodes \/ SerialUpdateEdges \/ GetGraphForSource

SpecProject == Init /\ [][NextProject]_vars

\* ------------------------------------------------ claims on source projection
SourceTags(entry) == entry.attrs["source:string[]"]

\* the records of store a projection with the given arguments is to select
Expected(store, args) ==
    { k \in DOMAIN store :
        IF args.mixed THEN Cardinality(SourceTags(store[k])) > 1
        ELSE IF args.strict THEN SourceTags(store[k]) = {args.source_name}
        ELSE args.source_name \in SourceTags(store[k]) }

\* C10: source projection selects exactly the records whose source-tag set is
\* {source_name} in strict mode, contains source_name in non-strict mode, and
\* has more than one member in mixed mode, in the node store and the edge store.
C10_ProjectionSelects ==
    pc = "projected" =>
       /\ DOMAIN node_set2 = Expected(nodes, proj)
       /\ DOMAIN edge_set2 = Expected(edges, proj)
       /\ \A k \in DOMAIN node_set2 : node_set2[k] = nodes[k]
       /\ \A k \in DOMAIN edge_set2 : edge_set2[k] = edges[k]

\* a strict projection has kept a record tagged with the one source asked for
\* and has left out a record tagged with that source and another
C10_Witness ==
    /\ pc = "projected"
    /\ proj.strict /\ ~proj.mixed
    /\ \E k \in DOMAIN node_set2 : SourceTags(nodes[k]) = {proj.source_name}
    /\ \E k \in DOMAIN nodes \ DOMAIN node_set2 :
         /\ proj.source_name \in SourceTags(nodes[k])
         /\ Cardinality(SourceTags(nodes[k])) > 1

\* C23: get_graph_for_source, in every mode (strict, non-strict, mixed), leaves
\* the input node store and edge store unchanged: the same keys and the same
\* field values before and after the call.
C23_ProjectionFrame ==
    [][(pc = "build" /\ pc' = "projected") => (nodes' = nodes /\ edges' = edges)]_vars

\* a non-strict projection has selected a node and an edge of stores that hold
\* them still
C23_Witness ==
    /\ pc = "projected"
    /\ ~proj.strict /\ ~proj.mixed
    /\ node_set2 # EmptyStore
    /\ edge_set2 # EmptyStore
    /\ DOMAIN node_set2 \subseteq DOMAIN nodes
    /\ DOMAIN edge_set2 \subseteq DOMAIN edges

\* the distinct source tags present in a store
TagsOf(store) == UNION { SourceTags(store[k]) : k \in DOMAIN store }

\* the keys of the strict projection of a store on one tag
StrictKeys(store, tag) == DOMAIN FilterStore(store, tag, TRUE, FALSE).store

\* the strict projections of a store over its tags are pairwise disjoint and
\* cover exactly the single-source records
IsPartition(store) ==
    /\ \A s \in TagsOf(store), t \in TagsOf(store) :
          s # t => StrictKeys(store, s) \cap StrictKeys(store, t) = {}
    /\ UNION { StrictKeys(store, t) : t \in TagsOf(store) }
          = { k \in DOMAIN store : Cardinality(SourceTags(store[k])) = 1 }

\* C11: projection partition.  For any store, the strict projections taken
\* over all distinct source tags present in the store are pairwise disjoint,
\* and their union is exactly the set of records whose source-tag set has a
\* single member; a strict projection the program has taken is one of them.
C11_ProjectionPartition ==
    /\ IsPartition(nodes)
    /\ IsPartition(edges)
    /\ (pc = "projected" /\ proj.strict /\ ~proj.mixed) =>
          /\ DOMAIN node_set2 = StrictKeys(nodes, proj.source_name)
          /\ DOMAIN edge_set2 = StrictKeys(edges, proj.source_name)

\* a strict projection has been taken of a node store that holds two records
\* of different single sources, and of an edge store or node store that holds
\* a record of several sources
C11_Witness ==
    /\ pc = "projected"
    /\ proj.strict /\ ~proj.mixed
    /\ \E j \in DOMAIN nodes, k \in DOMAIN nodes :
         /\ Cardinality(SourceTags(nodes[j])) = 1
         /\ Cardinality(SourceTags(nodes[k])) = 1
         /\ SourceTags(nodes[j]) # SourceTags(nodes[k])
         /\ j \in DOMAIN node_set2

\* ---------------------------------------------------------- resource merger
mixed_suffix == <<"m", "i", "x", "e", "d">>

\* write_graph(node_set, edge_set, resource_path, source_filter, strict,
\* source_name, mixed): the directories it may leave
write_graph(fs, node_set, edge_set, resource_path, source_filter, strict, source_name, mixed) ==
    LET g == IF source_filter
             THEN get_graph_for_source(node_set, edge_set, source_name, strict, FALSE)
             ELSE IF mixed
             THEN get_graph_for_source(node_set, edge_set, None, TRUE, TRUE)
             ELSE [nodes |-> node_set, edges |-> edge_set, raised |-> NoError]
        suffix == IF source_filter THEN source_name
                  ELSE IF mixed THEN mixed_suffix ELSE <<>>
    IN  { Written(fs, resource_path, suffix, nf, ef) :
            nf \in write_set(g.nodes, NODE_ATTRIBUTES),
            ef \in write_set(g.edges, EDGE_ATTRIBUTES) }

\* os.listdir(artifacts_path), filtered by x.startswith(prefix)
Listed(fs, dir, prefix) == { path \in DOMAIN fs : path[1] = dir /\ path[2] = prefix }

RECURSIVE FoldKeys(_, _, _, _, _)
\* for node_id in node_set.nodes: if node_id not in full_node_set.nodes:
\*     full_node_set.update_nodes(node_set.nodes[node_id])
FoldKeys(full, loaded, keys, i, cls) ==
    IF i > Len(keys) THEN Outcome(full, NoError)
    ELSE IF keys[i] \in DOMAIN full THEN FoldKeys(full, loaded, keys, i + 1, cls)
    ELSE LET out == IF cls = "Node" THEN update_nodes(full, loaded[keys[i]], None)
                    ELSE update_edges(full, loaded[keys[i]], None)
         IN  IF out.raised # NoError THEN out
             ELSE FoldKeys(out.store, loaded, keys, i + 1, cls)

RECURSIVE FoldFiles(_, _, _, _, _)
\* for node_path in node_sets: a fresh set is loaded and folded into full
FoldFiles(full, fs, paths, i, cls) ==
    IF i > Len(paths) THEN Outcome(full, NoError)
    ELSE LET loaded == load_set(EmptyStore, fs, paths[i],
                                IF cls = "Node" THEN NODE_ATTRIBUTES ELSE EDGE_ATTRIBUTES,
                                cls)
         IN  IF loaded.raised # NoError THEN Outcome(full, loaded.raised)
             ELSE LET out == FoldKeys(full, loaded.store,
                                      SetToSeq(DOMAIN loaded.store), 1, cls)
                  IN  IF out.raised # NoError THEN out
                      ELSE FoldFiles(out.store, fs, paths, i + 1, cls)

\* merge_resource_sets(artifacts_path), up to its write_graph: the two stores
\* it has built, or the exception that ends it; node_sets and edge_sets are the
\* listings in the order the directory gives them
merge_resource_sets(fs, node_sets, edge_sets) ==
    LET n == FoldFiles(EmptyStore, fs, node_sets, 1, "Node")
        e == FoldFiles(EmptyStore, fs, edge_sets, 1, "Edge")
    IN  IF n.raised # NoError
        THEN [nodes |-> EmptyStore, edges |-> EmptyStore, raised |-> n.raised]
        ELSE IF e.raised # NoError
        THEN [nodes |-> EmptyStore, edges |-> EmptyStore, raised |-> e.raised]
        ELSE [nodes |-> n.store, edges |-> e.store, raised |-> NoError]

\* the per-source writes of one run
MaxWrites == 2

\* write_graph(..., source_filter=True, strict=True, source_name, artifacts),
\* as the extractors call it after their pass
WriteSourceGraph ==
    /\ pc = "build"
    /\ raised = NoError
    /\ Cardinality(Listed(files, ARTIFACTS_PATH, "nodes")) < MaxWrites
    /\ \E source_name \in SourceNames \ {None} :
         files' \in write_graph(files, nodes, edges, ARTIFACTS_PATH,
                                TRUE, TRUE, source_name, FALSE)
    /\ UNCHANGED <<storeVars, node_set2, edge_set2, pc, proj>>
    /\ UNCHANGED scorerVars
    /\ UNCHANGED batchVars

\* write_graph(..., mixed=True, artifacts), as write_artifacts calls it
WriteMixedGraph ==
    /\ pc = "build"
    /\ raised = NoError
    /\ Cardinality(Listed(files, ARTIFACTS_PATH, "nodes")) < MaxWrites
    /\ files' \in write_graph(files, nodes, edges, ARTIFACTS_PATH,
                              FALSE, TRUE, None, TRUE)
    /\ UNCHANGED <<storeVars, node_set2, edge_set2, pc, proj>>
    /\ UNCHANGED scorerVars
    /\ UNCHANGED batchVars

\* node_set, edge_set = merge_resource_sets()
MergeResourceSets ==
    /\ pc = "build"
    /\ raised = NoError
    /\ \E node_sets \in Orders(Listed(files, ARTIFACTS_PATH, "nodes")),
          edge_sets \in Orders(Listed(files, ARTIFACTS_PATH, "edges")) :
         \E out \in {merge_resource_sets(files, node_sets, edge_sets)} :
             /\ node_set2' = out.nodes
             /\ edge_set2' = out.edges
             /\ raised' = out.raised
             /\ IF out.raised = NoError
                THEN files' \in write_graph(files, out.nodes, out.edges, RESOURCE_PATH,
                                            FALSE, TRUE, None, FALSE)
                ELSE files' = files
    /\ pc' = "merged"
    /\ UNCHANGED <<nodes, edges, calls, proj>>
    /\ UNCHANGED scorerVars
    /\ UNCHANGED batchVars

NextMerge ==
    \/ SerialUpdateNodes
    \/ SerialUpdateEdges
    \/ WriteSourceGraph
    \/ WriteMixedGraph
    \/ MergeResourceSets

SpecMerge == Init /\ [][NextMerge]_vars

\* ------------------------------------------------ claims on the resource merger
\* the records a file of the directory holds, as load reads them
FileRecords(path, cls) ==
    load_set(EmptyStore, files, path,
             IF cls = "Node" THEN NODE_ATTRIBUTES ELSE EDGE_ATTRIBUTES, cls).store

\* the files of the artifacts directory that hold a record under key
Holding(key, prefix, cls) ==
    { path \in Listed(files, ARTIFACTS_PATH, prefix) : key \in DOMAIN FileRecords(path, cls) }

\* the identities found in two different files
InTwoFiles(prefix, cls) ==
    { key \in UNION { DOMAIN FileRecords(path, cls) :
                        path \in Listed(files, ARTIFACTS_PATH, prefix) } :
        Cardinality(Holding(key, prefix, cls)) >= 2 }

\* merged holds one record for key, each multi-valued field being the union of
\* the members the files hold for it
MergedUnion(merged, key, prefix, cls) ==
    /\ key \in DOMAIN merged
    /\ \A a \in SetsOf(merged[key]) :
         merged[key].attrs[a]
           = UNION { FileRecords(path, cls)[key].attrs[a] : path \in Holding(key, prefix, cls) }

\* C6: merge_resource_sets merges rather than duplicates.  A node (or edge)
\* found in two per-source files of the directory is one record of the store
\* returned, its multi-valued fields the union of the members from the files.
C6_MergerMerges ==
    pc = "merged" =>
       /\ \A key \in InTwoFiles("nodes", "Node") : MergedUnion(node_set2, key, "nodes", "Node")
       /\ \A key \in InTwoFiles("edges", "Edge") : MergedUnion(edge_set2, key, "edges", "Edge")

\* two stores have the same keys and, under every key, the same set in every
\* multi-valued field
SameSets(s1, s2) ==
    /\ DOMAIN s1 = DOMAIN s2
    /\ \A k \in DOMAIN s1 : SetFields(s1, k) = SetFields(s2, k)

\* C22: order-independence of the merger for multi-valued fields.  For any two
\* iteration orders of the files in the directory, merge_resource_sets returns
\* stores with the same key sets and, for every key, the same set for every
\* multi-valued field.
C22_MergerOrderIndependent ==
    pc = "merged" =>
       \A n1o \in Orders(Listed(files, ARTIFACTS_PATH, "nodes")),
          n2o \in Orders(Listed(files, ARTIFACTS_PATH, "nodes")),
          e1o \in Orders(Listed(files, ARTIFACTS_PATH, "edges")),
          e2o \in Orders(Listed(files, ARTIFACTS_PATH, "edges")) :
          \A m1 \in {merge_resource_sets(files, n1o, e1o)},
             m2 \in {merge_resource_sets(files, n2o, e2o)} :
             /\ m1.raised = NoError
             /\ m2.raised = NoError
             /\ SameSets(m1.nodes, m2.nodes)
             /\ SameSets(m1.edges, m2.edges)

\* ------------------------------------------------------------ similarity scorer
\* Weights are counted in halves, so that the weight 0.5 is the integer 1 and
\* the weight 1 is the integer 2; the sums the code forms are sums of multiples
\* of 0.5 and are exact in floating point.  A score is the fraction [num, den].

Digits == {"0", "1", "2", "3", "4", "5", "6", "7", "8", "9"}

\* re.match(r"^syn\d*$", str(x)) is not None; $ also matches before a final
\* line break
IsProjectId(x) ==
    LET body == IF Len(x) > 0 /\ x[Len(x)] = NL THEN SubSeq(x, 1, Len(x) - 1) ELSE x
    IN  /\ Len(body) >= 3
        /\ SubSeq(body, 1, 3) = <<"s", "y", "n">>
        /\ \A i \in 4..Len(body) : body[i] \in Digits

\* a plausible slip: the wiki node of a project is not looked at
WikiOf_none(project_id) ==
    project_id

\* f"{project_id}:Wiki"
WikiOf(project_id) ==
    project_id \o <<":", "W", "i", "k", "i">>

\* the value read_csv gives an empty cell
NaN == <<"NaN">>

Row(start, end, type) == (":START_ID" :> start) @@ (":END_ID" :> end) @@ (":TYPE" :> type)

mentions == <<"m", "e", "n", "t", "i", "o", "n", "s">>
has_fundingAgency == <<"h", "a", "s", "_", "f", "A">>
has_institutions == <<"h", "a", "s", "_", "i", "n", "s">>
has_diseaseFocus == <<"h", "a", "s", "_", "d", "F">>
has_manifestation == <<"h", "a", "s", "_", "m">>
has_initiative == <<"h", "a", "s", "_", "i", "n", "i">>
usesTool == <<"u", "s", "e", "s", "T", "o", "o", "l">>
has_relatedStudies == <<"h", "a", "s", "_", "r", "S">>
hasWiki == <<"h", "a", "s", "W", "i", "k", "i">>
predicted_relatedStudies_GL == <<"p", "r", "e", "d">>

\* check_related_study_exists(edges_df, id_1, id_2)
check_related_study_exists(df, id_1, id_2) ==
    LET rel == { r \in df : r[":TYPE"] = has_relatedStudies }
        forward_df == { r \in rel : r[":START_ID"] = id_1 /\ r[":END_ID"] = id_2 }
        backward_df == { r \in rel : r[":START_ID"] = id_2 /\ r[":END_ID"] = id_1 }
    IN  Cardinality(forward_df) + Cardinality(backward_df) > 0

\* get_projects_to_edges(edges_df): the mapping and the set of project ids
get_projects_to_edges(df) ==
    LET ids == { x \in { r[":START_ID"] : r \in df } \cup { r[":END_ID"] : r \in df } :
                   IsProjectId(x) }
        head_edges(p) == { r \in df : r[":START_ID"] \in {p, WikiOf(p)} }
        tail_edges(p) == { r \in df : r[":END_ID"] \in {p, WikiOf(p)} }
        \* groupby(by=[...]) leaves out the rows with a missing value in a key
        head_groups(p) == { r \in head_edges(p) : r[":END_ID"] # NaN /\ r[":TYPE"] # NaN }
        tail_groups(p) == { r \in tail_edges(p) : r[":START_ID"] # NaN /\ r[":TYPE"] # NaN }
        entities(p) == { r[":END_ID"] : r \in head_groups(p) }
                         \cup { r[":START_ID"] : r \in tail_groups(p) }
        types(p, n) == { r[":TYPE"] : r \in { h \in head_groups(p) : h[":END_ID"] = n } }
                         \cup { r[":TYPE"] : r \in { t \in tail_groups(p) : t[":START_ID"] = n } }
    IN  [map |-> [p \in ids |-> [n \in entities(p) |-> types(p, n)]], ids |-> ids]

\* get_edge_weights(): 1 for each type of edges_df, then the re-weighted types
get_edge_weights(df) ==
    LET keys == { r[":TYPE"] : r \in df }
                  \cup {mentions, has_fundingAgency, has_institutions, has_diseaseFocus,
                        has_manifestation, has_initiative, usesTool}
    IN  [t \in keys |->
           IF t = mentions THEN 1
           ELSE IF t \in {has_fundingAgency, has_institutions,
                          has_diseaseFocus, has_manifestation} THEN 4
           ELSE IF t \in {has_initiative, usesTool} THEN 6
           ELSE 2]

\* the default of a dict lookup taken to be 0: a type that is not in the table
\* would not be counted
WeightOf_absent_zero(weights, edge_type) ==
    IF edge_type \in DOMAIN weights THEN weights[edge_type] ELSE 0

\* edge_weights.get(edge_type, 1)
WeightOf(weights, edge_type) ==
    IF edge_type \in DOMAIN weights THEN weights[edge_type] ELSE 2

RECURSIVE SumWeights(_, _)
\* for edge_type in types: score += edge_weights.get(edge_type, 1)
SumWeights(types, weights) ==
    IF types = {} THEN 0
    ELSE LET edge_type == CHOOSE t \in types : TRUE
         IN  WeightOf(weights, edge_type) + SumWeights(types \ {edge_type}, weights)

\* a plausible slip: the evidence names the type and leaves the neighbour out
Labels_type_only(types, e_name) ==
    types

\* f"{edge_type}:{e_name}" for each type of the set
Labels(types, e_name) ==
    { edge_type \o <<":">> \o e_name : edge_type \in types }

\* project_to_edges_map[pid].get(entity, set())
TypesOf(map, pid, entity) ==
    IF entity \in DOMAIN map[pid] THEN map[pid][entity] ELSE {}

\* the union loop run over the types of the first project only
UnionTypes_head_only(types_1, types_2) ==
    types_1

\* the union loop run over the types that only one project has
UnionTypes_one_sided(types_1, types_2) ==
    (types_1 \ types_2) \cup (types_2 \ types_1)

\* a plausible slip: the union loop runs over the shared types again
UnionTypes_shared(types_1, types_2) ==
    types_1 \cap types_2

\* types_1 | types_2
UnionTypes(types_1, types_2) ==
    types_1 \cup types_2

RECURSIVE SimLoop(_, _, _, _, _, _, _)
\* for entity in all_entities_combined: ... ; attrs holds the two running sums
\* and the three evidence sets
SimLoop(entities, pid_1, pid_2, map, weights, names, attrs) ==
    IF entities = {} THEN attrs
    ELSE LET entity == CHOOSE n \in entities : TRUE
             e_name == IF entity \in DOMAIN names THEN names[entity] ELSE entity
             types_1 == TypesOf(map, pid_1, entity)
             types_2 == TypesOf(map, pid_2, entity)
         IN  SimLoop(entities \ {entity}, pid_1, pid_2, map, weights, names,
               [attrs EXCEPT
                  !.shared_edges = @ \cup Labels(types_1 \cap types_2, e_name),
                  !.head_only_edges = @ \cup
                     Labels({ t \in UnionTypes(types_1, types_2) : t \in types_1 \ types_2 }, e_name),
                  !.tail_only_edges = @ \cup
                     Labels({ t \in UnionTypes(types_1, types_2) : t \in types_2 \ types_1 }, e_name),
                  !.intersection_score = @ + SumWeights(types_1 \cap types_2, weights),
                  !.union_score = @ + SumWeights(UnionTypes(types_1, types_2), weights)])

\* jacquard_sim(pid_1, pid_2) over the globals project_to_edges_map,
\* edge_weights, name_maps and cutoff: [jacquard_score, edge_attrs]
jacquard_sim(pid_1, pid_2, map, weights, names, score_cutoff) ==
    LET all_entities_combined == DOMAIN map[pid_1] \cup DOMAIN map[pid_2]
        edge_attrs == SimLoop(all_entities_combined, pid_1, pid_2, map, weights, names,
                        [start |-> pid_1, end |-> pid_2,
                         jacquard_score |-> <<>>,
                         score_cutoff |-> score_cutoff,
                         intersection_score |-> 0,
                         union_score |-> 0,
                         shared_edges |-> {},
                         head_only_edges |-> {},
                         tail_only_edges |-> {},
                         edge_weights |-> weights,
                         type |-> predicted_relatedStudies_GL])
        jacquard_score == IF edge_attrs.union_score > 0
                          THEN [num |-> edge_attrs.intersection_score,
                                den |-> edge_attrs.union_score]
                          ELSE [num |-> 0, den |-> 1]
    IN  [jacquard_score |-> jacquard_score,
         edge_attrs |-> [edge_attrs EXCEPT !.jacquard_score = jacquard_score]]

\* a plausible slip: the cutoff itself is not enough
Geq_strict(x, y) ==
    x.num * y.den > y.num * x.den

\* x >= y for two fractions of positive denominator
Geq(x, y) ==
    x.num * y.den >= y.num * x.den

\* a plausible slip: the loop runs over every ordered pair, self-pairs included
combinations_product(ids) ==
    SetToSeq({ <<ids[i], ids[j]>> : i \in 1..Len(ids), j \in 1..Len(ids) })

RECURSIVE combinations(_)
\* itertools.combinations(iterable, 2), in the order it yields the pairs
combinations(ids) ==
    IF Len(ids) < 2 THEN <<>>
    ELSE [i \in 1..(Len(ids) - 1) |-> <<ids[1], ids[i + 1]>>] \o combinations(Tail(ids))

\* the rows the edge table is drawn from
MaxEdges == 4

syn1 == <<"s", "y", "n", "1">>
syn2 == <<"s", "y", "n", "2">>
syn == <<"s", "y", "n">>
wiki1 == <<"s", "y", "n", "1", ":", "W", "i", "k", "i">>
wiki2 == <<"s", "y", "n", "2", ":", "W", "i", "k", "i">>
entX == <<"X">>
entY == <<"Y">>
typeR == <<"r">>
typeQ == <<"q">>

EdgeRows ==
    { Row(syn1, entX, typeR),
      Row(syn2, entX, typeR),
      Row(syn2, entX, typeQ),
      Row(wiki1, entX, mentions),
      Row(wiki2, entX, mentions),
      Row(syn1, wiki1, hasWiki),
      Row(entX, syn1, usesTool),
      Row(entX, syn2, usesTool),
      Row(syn1, entY, typeQ),
      Row(syn, entY, typeQ),
      Row(syn1, NaN, typeR) }

RelatedTables == { {}, {Row(syn1, syn2, has_relatedStudies)} }

NameMaps == { EmptyStore, [n \in {entX} |-> <<"x", "n">>] }

\* the script up to its loop: the tables are read, the profile, the weights and
\* the names are built, and the pairs are laid out
StartScorer ==
    /\ pc = "build"
    /\ \E df \in { d \in SUBSET EdgeRows : Cardinality(d) <= MaxEdges },
          related \in RelatedTables, names \in NameMaps :
         LET built == get_projects_to_edges(df)
         IN  \E order \in Orders(built.ids) :
               /\ edges_df' = df
               /\ cutoff' = [num |-> 1, den |-> 5]
               /\ project_to_edges_map' = built.map
               /\ all_project_ids' = order
               /\ edge_weights' = get_edge_weights(df)
               /\ name_maps' = names
               /\ res' = <<>>
               /\ edges_out' = <<>>
               /\ related_project_edges_df' = related
               /\ todo' = combinations(order)
    /\ pc' = "score"
    /\ UNCHANGED <<storeVars, files, node_set2, edge_set2, proj>>
    /\ UNCHANGED batchVars

\* one turn of the loop over combinations(all_project_ids, 2)
ScorePair ==
    /\ pc = "score"
    /\ todo # <<>>
    /\ \E out \in { jacquard_sim(Head(todo)[1], Head(todo)[2], project_to_edges_map,
                                 edge_weights, name_maps, cutoff) } :
         LET pid_1 == Head(todo)[1]
             pid_2 == Head(todo)[2]
         IN  /\ res' = Append(res,
                   [id1 |-> pid_1,
                    id2 |-> pid_2,
                    entity_id1 |-> Cardinality(DOMAIN project_to_edges_map[pid_1]),
                    entity_id2 |-> Cardinality(DOMAIN project_to_edges_map[pid_2]),
                    jacquard_score |-> out.jacquard_score,
                    has_related_study |->
                        check_related_study_exists(related_project_edges_df, pid_1, pid_2)])
             /\ edges_out' = IF Geq(out.jacquard_score, cutoff)
                             THEN Append(edges_out, out.edge_attrs)
                             ELSE edges_out
    /\ todo' = Tail(todo)
    /\ UNCHANGED <<storeVars, serialVars, edges_df, related_project_edges_df,
                   project_to_edges_map, all_project_ids, edge_weights, name_maps, cutoff>>
    /\ UNCHANGED batchVars

NextScorer == StartScorer \/ ScorePair

SpecScorer == Init /\ [][NextScorer]_vars

\* ---------------------------------------------- claims on the similarity scorer
\* the project ids of the profile
Projects == DOMAIN project_to_edges_map

\* the relation types project p holds to neighbour n
Held(p, n) ==
    IF n \in DOMAIN project_to_edges_map[p] THEN project_to_edges_map[p][n] ELSE {}

\* the neighbours of either project
Neighbours(a, b) == DOMAIN project_to_edges_map[a] \cup DOMAIN project_to_edges_map[b]

\* the weight a table gives a type, in halves: the entry, or 1 if there is none
Weight(table, t) == IF t \in DOMAIN table THEN table[t] ELSE 2

\* a sum of weights over a set of <<neighbour, type>> pairs, formed by counting
\* the pairs of each weight
Magnitude(pairs, table) ==
    LET count(v) == Cardinality({ pr \in pairs : Weight(table, pr[2]) = v })
    IN  count(1) + 2 * count(2) + 3 * count(3) + 4 * count(4) + 5 * count(5) + 6 * count(6)

\* the <<neighbour, type>> pairs with the type in Ta \cap Tb
SharedPairs(a, b) ==
    UNION { { <<n, t>> : t \in Held(a, n) \cap Held(b, n) } : n \in Neighbours(a, b) }

\* the <<neighbour, type>> pairs with the type in Ta \cup Tb
EitherPairs(a, b) ==
    UNION { { <<n, t>> : t \in Held(a, n) \cup Held(b, n) } : n \in Neighbours(a, b) }

\* the table the script built, and the same table without one of the types of
\* the edge table
PositiveTables ==
    {edge_weights} \cup
    { [t \in DOMAIN edge_weights \ {gone} |-> edge_weights[t]] :
        gone \in { row[":TYPE"] : row \in edges_df } }

\* the positive tables and the table that weighs every type 0
WeightTables == PositiveTables \cup { [t \in DOMAIN edge_weights |-> 0] }

\* the result of jacquard_sim is the weighted Jaccard of the two profiles
IsWeightedJaccard(out, a, b, table) ==
    \A shared \in {SharedPairs(a, b)}, either \in {EitherPairs(a, b)} :
      \A intersection \in {Magnitude(shared, table)}, union \in {Magnitude(either, table)} :
        /\ out.edge_attrs.intersection_score = intersection
        /\ out.edge_attrs.union_score = union
        /\ out.edge_attrs.jacquard_score = out.jacquard_score
        /\ IF union = 0
           THEN out.jacquard_score.num = 0
           ELSE out.jacquard_score.num * union = intersection * out.jacquard_score.den

\* C7: weighted Jaccard result.  For any two projects a, b and any weight
\* table, jacquard_sim returns as intersection the sum, over every neighbour of
\* either project, of the weights of the types in Ta \cap Tb, as union the same
\* sum over Ta \cup Tb, and as score intersection/union, or 0 when the union is
\* 0; a type that is not in the table counts with weight 1.  The scores the
\* loop has recorded are these scores.
C7_WeightedJaccard ==
    /\ \A a \in Projects, b \in Projects, table \in WeightTables :
         \A out \in {jacquard_sim(a, b, project_to_edges_map, table, name_maps, cutoff)} :
            IsWeightedJaccard(out, a, b, table)
    /\ \A i \in 1..Len(res) :
         \A shared \in {SharedPairs(res[i].id1, res[i].id2)},
            either \in {EitherPairs(res[i].id1, res[i].id2)} :
              res[i].jacquard_score.num * Magnitude(either, edge_weights)
                = Magnitude(shared, edge_weights) * res[i].jacquard_score.den

\* a pair has been scored whose intersection is positive and below its union,
\* and one of the types the two projects share has weight 0.5
C7_Witness ==
    /\ Len(res) >= 1
    /\ res[1].jacquard_score.num > 0
    /\ res[1].jacquard_score.num < res[1].jacquard_score.den
    /\ \E pr \in SharedPairs(res[1].id1, res[1].id2) : pr[2] = mentions

\* C8: similarity bounds.  For every pair of projects and every weight table
\* with positive weights, 0 <= intersection <= union, hence 0 <= score <= 1.
C8_SimilarityBounds ==
    \A a \in Projects, b \in Projects, table \in PositiveTables :
       \A out \in {jacquard_sim(a, b, project_to_edges_map, table, name_maps, cutoff)} :
           /\ 0 <= out.edge_attrs.intersection_score
           /\ out.edge_attrs.intersection_score <= out.edge_attrs.union_score
           /\ 0 <= out.jacquard_score.num
           /\ out.jacquard_score.den > 0
           /\ out.jacquard_score.num <= out.jacquard_score.den

\* a predicted edge has been emitted whose pair shares a type and has another
\* type on one side only
C8_Witness ==
    \E i \in 1..Len(edges_out) :
       /\ edges_out[i].shared_edges # {}
       /\ edges_out[i].intersection_score < edges_out[i].union_score

\* C9: similarity symmetry.  For any two projects a and b over the same
\* profiles and weights, jacquard_sim(a, b) and jacquard_sim(b, a) return the
\* same score, the same intersection magnitude and the same union magnitude.
C9_SimilaritySymmetric ==
    \A a \in Projects, b \in Projects, table \in PositiveTables :
       \A ab \in {jacquard_sim(a, b, project_to_edges_map, table, name_maps, cutoff)},
          ba \in {jacquard_sim(b, a, project_to_edges_map, table, name_maps, cutoff)} :
           /\ ab.jacquard_score.num * ba.jacquard_score.den
                = ba.jacquard_score.num * ab.jacquard_score.den
           /\ ab.edge_attrs.intersection_score = ba.edge_attrs.intersection_score
           /\ ab.edge_attrs.union_score = ba.edge_attrs.union_score

\* a pair has been scored of which only the first project holds a type the
\* second does not
C9_Witness ==
    \E i \in 1..Len(edges_out) :
       /\ edges_out[i].head_only_edges # {}
       /\ edges_out[i].tail_only_edges = {}
       /\ edges_out[i].shared_edges # {}

RECURSIVE AboveCutoff(_)
\* the scored pairs of a list whose score is at least the cutoff, in order
AboveCutoff(scored) ==
    IF scored = <<>> THEN <<>>
    ELSE LET rest == AboveCutoff(Tail(scored))
             first == Head(scored)
         IN  IF first.jacquard_score.num * cutoff.den >= cutoff.num * first.jacquard_score.den
             THEN <<first>> \o rest
             ELSE rest

\* C17: in the pair loop a predicted edge for the pair (a, b) is appended to the
\* output if and only if the pair's score is >= the cutoff, and that edge
\* carries the pair's score, the cutoff, the intersection and union magnitudes
\* and the three evidence sets; a pair with score 0 is emitted only when the
\* cutoff is <= 0.
C17_EmittedIffAboveCutoff ==
    \A above \in {AboveCutoff(res)} :
       /\ Len(edges_out) = Len(above)
       /\ \A i \in 1..Len(above) :
            \A sim \in {jacquard_sim(above[i].id1, above[i].id2, project_to_edges_map,
                                     edge_weights, name_maps, cutoff)} :
               /\ edges_out[i].start = above[i].id1
               /\ edges_out[i].end = above[i].id2
               /\ edges_out[i].jacquard_score = above[i].jacquard_score
               /\ edges_out[i].score_cutoff = cutoff
               /\ edges_out[i].intersection_score
                    = Magnitude(SharedPairs(above[i].id1, above[i].id2), edge_weights)
               /\ edges_out[i].union_score
                    = Magnitude(EitherPairs(above[i].id1, above[i].id2), edge_weights)
               /\ edges_out[i].shared_edges = sim.edge_attrs.shared_edges
               /\ edges_out[i].head_only_edges = sim.edge_attrs.head_only_edges
               /\ edges_out[i].tail_only_edges = sim.edge_attrs.tail_only_edges
               /\ above[i].jacquard_score.num = 0 => cutoff.num <= 0

\* the loop has emitted an edge for one pair and none for another, whose score
\* is 0
C17_Witness ==
    /\ Len(edges_out) >= 1
    /\ \E i \in 1..Len(res) :
         /\ res[i].jacquard_score.num = 0
         /\ \A j \in 1..Len(edges_out) :
              <<edges_out[j].start, edges_out[j].end>> # <<res[i].id1, res[i].id2>>

\* the top-level entities: the identifiers of the form syn<digits> that occur
\* as an endpoint of some row
TopLevel ==
    { x \in { row[":START_ID"] : row \in edges_df } \cup { row[":END_ID"] : row \in edges_df } :
        IsProjectId(x) }

\* no self-pair in a list of pairs, and no unordered pair twice
PairsOnce(pairs) ==
    /\ \A i \in 1..Len(pairs) : pairs[i][1] # pairs[i][2]
    /\ \A i \in 1..Len(pairs), j \in 1..Len(pairs) :
         i # j => {pairs[i][1], pairs[i][2]} # {pairs[j][1], pairs[j][2]}

\* C18: the scorer scores every unordered pair of distinct top-level entities
\* exactly once and never scores a self-pair, so the emitted predicted edges
\* contain at most one edge for any unordered pair {a, b} and never an edge
\* whose start equals its end.
C18_EveryPairOnce ==
    /\ PairsOnce([i \in 1..Len(res) |-> <<res[i].id1, res[i].id2>>])
    /\ PairsOnce([i \in 1..Len(edges_out) |-> <<edges_out[i].start, edges_out[i].end>>])
    /\ (pc = "score" /\ todo = <<>>) =>
          \A a \in TopLevel, b \in TopLevel :
             a # b => \E i \in 1..Len(res) : {res[i].id1, res[i].id2} = {a, b}

\* the loop has run to its end over three top-level entities and has emitted
\* an edge
C18_Witness ==
    /\ pc = "score"
    /\ todo = <<>>
    /\ Cardinality(TopLevel) = 3
    /\ Len(res) = 3
    /\ Len(edges_out) >= 1

\* label(n): the name-map entry of n, or n itself when there is none
LabelOf(n) == IF n \in DOMAIN name_maps THEN name_maps[n] ELSE n

\* the strings 'type:label(n)' of a set of <<neighbour, type>> pairs
Evidence(pairs) == { pr[2] \o <<":">> \o LabelOf(pr[1]) : pr \in pairs }

\* the <<neighbour, type>> pairs with the type held by a and not by b
OnlyPairs(a, b) ==
    UNION { { <<n, t>> : t \in Held(a, n) \ Held(b, n) } : n \in Neighbours(a, b) }

\* the three evidence sets of an edge are those of the pair (a, b)
IsEvidenceOf(attrs, a, b) ==
    /\ attrs.shared_edges = Evidence(SharedPairs(a, b))
    /\ attrs.head_only_edges = Evidence(OnlyPairs(a, b))
    /\ attrs.tail_only_edges = Evidence(OnlyPairs(b, a))

\* C19: evidence sets.  For each scored pair (a, b), the shared-evidence set
\* holds exactly the strings 'type:label(n)' for every neighbour n and every
\* type in Ta \cap Tb, the head-only set exactly those for Ta \ Tb and the
\* tail-only set exactly those for Tb \ Ta, where label(n) is the name-map entry
\* of n, or n itself when there is none.
C19_EvidenceSets ==
    /\ \A a \in Projects, b \in Projects :
         \A sim \in {jacquard_sim(a, b, project_to_edges_map, edge_weights, name_maps, cutoff)} :
            IsEvidenceOf(sim.edge_attrs, a, b)
    /\ \A i \in 1..Len(edges_out) :
         IsEvidenceOf(edges_out[i], edges_out[i].start, edges_out[i].end)

\* two projects each linked only to X by relation r have been scored: the edge
\* emitted has the shared evidence {'r:X'} and two empty one-sided sets
C19_Witness ==
    \E i \in 1..Len(edges_out) :
       /\ DOMAIN project_to_edges_map[edges_out[i].start] = {entX}
       /\ project_to_edges_map[edges_out[i].start][entX] = {typeR}
       /\ project_to_edges_map[edges_out[i].end] = project_to_edges_map[edges_out[i].start]
       /\ edges_out[i].shared_edges = {<<"r", ":", "X">>}
       /\ edges_out[i].head_only_edges = {}
       /\ edges_out[i].tail_only_edges = {}

\* the identifiers and the types the rows give, missing values left out
Identifiers ==
    ({ row[":START_ID"] : row \in edges_df } \cup { row[":END_ID"] : row \in edges_df }) \ {NaN}

TypesGiven == { row[":TYPE"] : row \in edges_df } \ {NaN}

\* the edge list holds an edge of type t between p, or p's wiki node p:Wiki,
\* and n, in either direction
Linked(p, n, t) ==
    \E row \in edges_df :
       /\ row[":TYPE"] = t
       /\ \/ row[":START_ID"] \in {p, p \o <<":", "W", "i", "k", "i">>} /\ row[":END_ID"] = n
          \/ row[":END_ID"] \in {p, p \o <<":", "W", "i", "k", "i">>} /\ row[":START_ID"] = n

\* C20: adjacency profile.  For every top-level entity p (an identifier of the
\* form syn<digits> occurring as an endpoint of some edge), get_projects_to_edges
\* puts relation type t into profile[p][n] if and only if the edge list contains
\* an edge of type t from p or from p's wiki node to n, or from n to p or to p's
\* wiki node.  (n and t range over the identifiers and types the rows give; a
\* row with a missing endpoint or type names no neighbour.)
C20_AdjacencyProfile ==
    pc = "score" =>
       /\ DOMAIN project_to_edges_map = TopLevel
       /\ \A p \in TopLevel :
            /\ DOMAIN project_to_edges_map[p] \subseteq Identifiers
            /\ \A n \in Identifiers :
                 \A t \in TypesGiven \cup Held(p, n) : t \in Held(p, n) <=> Linked(p, n, t)

\* a profile has been built from a row that starts at a project's wiki node
\* and a row that ends at the project
C20_Witness ==
    /\ pc = "score"
    /\ Row(wiki1, entX, mentions) \in edges_df
    /\ Row(entX, syn1, usesTool) \in edges_df
    /\ syn1 \in DOMAIN project_to_edges_map
    /\ project_to_edges_map[syn1][entX] = {mentions, usesTool}

\* C21: a pair's score equals 1 only if the union magnitude is positive and,
\* for every neighbour of either project, the two relation-type sets are equal
\* (Ta = Tb): no positively weighted type to any neighbour is held by one side
\* only.  The same holds of the scores the loop has recorded.
C21_ScoreOneOnlyIfEqual ==
    /\ \A a \in Projects, b \in Projects, table \in PositiveTables :
         \A sim \in {jacquard_sim(a, b, project_to_edges_map, table, name_maps, cutoff)} :
            sim.jacquard_score.num = sim.jacquard_score.den =>
               /\ sim.edge_attrs.union_score > 0
               /\ \A n \in Neighbours(a, b) : Held(a, n) = Held(b, n)
    /\ \A i \in 1..Len(res) :
         res[i].jacquard_score.num = res[i].jacquard_score.den =>
            \A n \in Neighbours(res[i].id1, res[i].id2) :
               Held(res[i].id1, n) = Held(res[i].id2, n)

\* the loop has recorded a score of 1 for a pair of projects that hold the same
\* two types to their one neighbour
C21_Witness ==
    \E i \in 1..Len(res) :
       /\ res[i].jacquard_score.num = res[i].jacquard_score.den
       /\ res[i].jacquard_score.num > 0
       /\ \E n \in Neighbours(res[i].id1, res[i].id2) :
            Cardinality(Held(res[i].id1, n)) = 2


\* C29: in the adjacency profile built by get_projects_to_edges, the neighbour
\* set of a project p never contains p itself nor p's own wiki node p:Wiki, so
\* the edge linking a project to its wiki contributes nothing to the
\* intersection or union of any pair.
C29_NoSelfNeighbour ==
    pc = "score" =>
       \A p \in DOMAIN project_to_edges_map :
          /\ p \notin DOMAIN project_to_edges_map[p]
          /\ p \o <<":", "W", "i", "k", "i">> \notin DOMAIN project_to_edges_map[p]


\* ------------------------------------------------------- extractor batches
\* The sets of the node store are Python objects.  update_nodes stores the
\* caller's set itself under a new key and a set of its own making for a str;
\* under an existing key it adds to the object the field is.  ident names the
\* object of every set field; fields that are one object change together.
\* update_edges stores a copy, set(attr_val), so no edge field is shared.

\* the module-level set data_source of vcf_data.py
DataSourceObject == <<<<"data_source">>, "module">>

\* the set source of one process_dicom call
LocalSourceObject(file_id) == <<file_id, "local">>

\* the objects the set fields of a node created under key are
NewIdent(key, new_node, obj) ==
    [ka \in { <<key, a>> : a \in Range(set_attributes(NODE_ATTRIBUTES)) } |->
        IF Get(new_node.attrs, ka[2], StrV(<<>>)).isStr THEN ka ELSE obj]

\* the graph an extractor works on: both stores, the objects, the exception
Graph(ns, es, idn, ds, fr) ==
    [nodes |-> ns, edges |-> es, ident |-> idn, data_source |-> ds, frame |-> fr,
     raised |-> NoError]

\* node_set.update_nodes(new_node), obj being the set object the caller gives
\* for source:string[]
UpsertNode(g, new_node, obj) ==
    LET key == NodeKeyOf(new_node, None)
        out == update_nodes(g.nodes, new_node, None)
        \* the set fields of key that are the object the field ka is
        Same(ka) == { a \in Range(set_attributes(NODE_ATTRIBUTES)) :
                        /\ ka \in DOMAIN g.ident
                        /\ <<key, a>> \in DOMAIN g.ident
                        /\ g.ident[<<key, a>>] = g.ident[ka] }
        Seen(k, a) == IF Same(<<k, a>>) # {}
                      THEN out.store[key].attrs[CHOOSE b \in Same(<<k, a>>) : TRUE]
                      ELSE out.store[k].attrs[a]
        Module == { a \in Range(set_attributes(NODE_ATTRIBUTES)) :
                      /\ <<key, a>> \in DOMAIN g.ident
                      /\ g.ident[<<key, a>>] = DataSourceObject }
    IN  IF key \notin DOMAIN g.nodes
        THEN [g EXCEPT !.nodes = out.store,
                       !.ident = NewIdent(key, new_node, obj) @@ @,
                       !.frame = [before |-> g.nodes, key |-> key],
                       !.raised = out.raised]
        ELSE [g EXCEPT !.nodes = [k \in DOMAIN out.store |->
                                    [out.store[k] EXCEPT !.attrs =
                                       [a \in DOMAIN @ |->
                                          IF HasStringArray(a) THEN Seen(k, a) ELSE @[a]]]],
                       !.data_source = IF Module # {}
                                       THEN out.store[key].attrs[CHOOSE a \in Module : TRUE]
                                       ELSE @,
                       !.frame = [before |-> g.nodes, key |-> key],
                       !.raised = out.raised]

\* edge_set.update_edges(new_edge)
UpsertEdge(g, new_edge) ==
    LET out == update_edges(g.edges, new_edge, None)
    IN  [g EXCEPT !.edges = out.store, !.raised = out.raised]

NodeCall(new_node, obj) == [op |-> "update_nodes", rec |-> new_node, obj |-> obj]
EdgeCall(new_edge) == [op |-> "update_edges", rec |-> new_edge, obj |-> None]

RECURSIVE RunUpserts(_, _, _)
\* the upserts of an extractor, in the order it makes them, up to the first
\* that raises
RunUpserts(g, upserts, i) ==
    IF i > Len(upserts) \/ g.raised # NoError THEN g
    ELSE RunUpserts(IF upserts[i].op = "update_nodes"
                    THEN UpsertNode(g, upserts[i].rec, upserts[i].obj)
                    ELSE UpsertEdge(g, upserts[i].rec),
                    upserts, i + 1)

RECURSIVE Flatten(_)
Flatten(seqs) == IF seqs = <<>> THEN <<>> ELSE Head(seqs) \o Flatten(Tail(seqs))

has_sample == <<"h", "a", "s", "_", "s", "a", "m", "p", "l", "e">>
has_vcf_format == <<"h", "a", "s", "_", "v", "c", "f", "_", "f", "o", "r", "m", "a", "t">>
has_vcf_reference == <<"h", "a", "s", "_", "v", "c", "f", "_", "r", "e", "f", "e", "r", "e", "n", "c", "e">>
has_vcf_command == <<"h", "a", "s", "_", "v", "c", "f", "_", "c", "o", "m", "m", "a", "n", "d">>
has_dicom == <<"h", "a", "s", "_", "d", "i", "c", "o", "m">>
wiki == <<"w", "i", "k", "i">>

\* extract_vcf_metadata(obj, node_set, edge_set): obj gives the study, the
\* fileformat, reference, source and GATKCommandLine of the header, and the
\* samples
extract_vcf_metadata(g, obj) ==
    LET src == "source:string[]" :> SetV(g.data_source)
        node(c) == NodeCall(NodeRec("curie:ID" :> c, "name" :> c, src), DataSourceObject)
        edge(h, t, r) == EdgeCall(EdgeRec(Start(h), End(t), Type(r), src))
        vcf_cmnds == obj.source \o obj.GATKCommandLine
        of_sample(sample) ==
            << node(sample),
               edge(obj.studyId, sample, has_sample),
               edge(sample, obj.fileformat, has_vcf_format),
               edge(sample, obj.reference, has_vcf_reference) >>
            \o [j \in 1..Len(vcf_cmnds) |-> edge(sample, vcf_cmnds[j], has_vcf_command)]
    IN  RunUpserts(g,
           << node(obj.fileformat), node(obj.reference) >>
           \o [j \in 1..Len(obj.source) |-> node(obj.source[j])]
           \o [j \in 1..Len(obj.GATKCommandLine) |-> node(obj.GATKCommandLine[j])]
           \o Flatten([j \in 1..Len(obj.samples) |-> of_sample(obj.samples[j])]),
           1)

Status(project_id, file_id, able_to_process) ==
    [project_id |-> project_id, file_id |-> file_id, able_to_process |-> able_to_process]

\* a plausible slip: the exception of syn.get is not caught
parse_vcf_file_uncaught(g, obj, project_id) ==
    IF obj.locked
    THEN [g |-> [g EXCEPT !.raised = "SynapseError"],
          status |-> Status(project_id, obj.id, FALSE)]
    ELSE [g |-> extract_vcf_metadata(g, obj), status |-> Status(project_id, obj.id, TRUE)]

\* parse_vcf_file(file_id, node_set, edge_set, project_id, process_variants=False):
\* obj.locked says that syn.get(file_id) raises
parse_vcf_file(g, obj, project_id) ==
    IF obj.locked
    THEN [g |-> g, status |-> Status(project_id, obj.id, FALSE)]
    ELSE [g |-> extract_vcf_metadata(g, obj), status |-> Status(project_id, obj.id, TRUE)]

\* annotate(res) found nothing
NoMatch == [curie |-> None, name |-> None, text |-> None]

\* process_dicom(file_id, node_set, edge_set, dicom_identifiers,
\* project_granularity): obj gives the annotations and the header of the file;
\* obj.series stands for (assay, specimenID, individualID, experimentalTimepoint)
process_dicom(g, obj, identifiers, project_granularity) ==
    LET source == {dicom_data, experimental_data}
        src == "source:string[]" :> SetV(source)
        project_id == obj.studyId
        series_identifier == IF ~project_granularity THEN <<project_id, obj.series>>
                             ELSE <<project_id>>
        uid == obj.SeriesInstanceUID
        ans == obj.ImageComments
        of_series ==
            << NodeCall(NodeRec("curie:ID" :> uid, "name" :> uid, src),
                        LocalSourceObject(obj.id)),
               EdgeCall(EdgeRec(Start(project_id), End(uid), Type(has_dicom), src)) >>
        of_field ==
            IF ans = NoMatch THEN <<>>
            ELSE << NodeCall(NodeRec("curie:ID" :> ans.curie, "name" :> ans.name,
                                     src @@ ("raw_texts:string[]" :> StrV(ans.text))),
                             LocalSourceObject(obj.id)),
                    EdgeCall(EdgeRec(Start(project_id), End(ans.curie), NoField, src)) >>
    IN  IF series_identifier \in identifiers
        THEN [g |-> g, identifiers |-> identifiers,
              status |-> Status(project_id, obj.id, FALSE)]
        ELSE IF obj.locked
        THEN [g |-> g, identifiers |-> identifiers \cup {series_identifier},
              status |-> Status(project_id, obj.id, FALSE)]
        ELSE [g |-> RunUpserts(g, of_series \o of_field, 1),
              identifiers |-> identifiers \cup {series_identifier},
              status |-> Status(project_id, obj.id, TRUE)]

\* get_entities_from_wiki(study_wiki, ...): the wiki node, its edge, and a node
\* and an edge for every annotation of the wiki's fields
get_entities_from_wiki(g, study_wiki) ==
    LET wiki_id == study_wiki.ownerId \o <<":", "W", "i", "k", "i">>
        of_annotation(ans) ==
            << NodeCall(NodeRec("curie:ID" :> ans.curie, "name" :> ans.name,
                                Src(wiki) @@ ("raw_texts:string[]" :> StrV(ans.text))),
                        None),
               EdgeCall(EdgeRec(Start(wiki_id), End(ans.curie), Type(mentions), Src(wiki))) >>
    IN  RunUpserts(g,
           << NodeCall(NodeRec("curie:ID" :> wiki_id, NoField, Src(wiki)), None),
              EdgeCall(EdgeRec(Start(study_wiki.ownerId), End(wiki_id), Type(hasWiki),
                               Src(wiki))) >>
           \o Flatten([j \in 1..Len(study_wiki.annotations) |->
                         of_annotation(study_wiki.annotations[j])]),
           1)

\* str(source_name), the part of the file name write_graph forms from the
\* source_name of the extractor: "vcf_data", or the list of get_dicom_data
SourceName(extractor) ==
    IF extractor = "vcf" THEN vcf_data
    ELSE <<"[">> \o dicom_data \o <<",">> \o experimental_data \o <<"]">>

\* write_graph(node_set, edge_set, source_filter=True, strict=True,
\* source_name=..., resource_path=artifacts) as the extractors call it: the
\* directories and the exception it may leave.  get_dicom_data passes a list,
\* and "source_name not in" a set raises TypeError for a list; the test is
\* reached for a record of at most one source
ExtractorWrite(fs, ns, es, extractor) ==
    IF /\ extractor = "dicom"
       /\ \/ \E k \in DOMAIN ns : Cardinality(ns[k].attrs["source:string[]"]) <= 1
          \/ \E k \in DOMAIN es : Cardinality(es[k].attrs["source:string[]"]) <= 1
    THEN {[files |-> fs, raised |-> "TypeError"]}
    ELSE { [files |-> w, raised |-> NoError] :
             w \in write_graph(fs, ns, es, ARTIFACTS_PATH, TRUE, TRUE,
                               SourceName(extractor), FALSE) }

\* how many files the projects of a run hold
MaxFiles == 3

f1 == <<"f", "1">>
f2 == <<"f", "2">>
f3 == <<"f", "3">>
f4 == <<"f", "4">>

VcfFile(id, locked, fileformat, reference, source, GATKCommandLine, samples) ==
    [id |-> id, locked |-> locked, studyId |-> syn1, fileformat |-> fileformat,
     reference |-> reference, source |-> source, GATKCommandLine |-> GATKCommandLine,
     samples |-> samples]

\* the VCF files a project may list: one that opens, one that is locked, one
\* with the reference of the first, one that shares nothing with the first
VcfFiles ==
    { VcfFile(f1, FALSE, <<"v">>, <<"g">>, << <<"c">> >>, <<>>, << <<"s">> >>),
      VcfFile(f2, TRUE, <<"v">>, <<"g">>, <<>>, <<>>, <<>>),
      VcfFile(f3, FALSE, <<"w">>, <<"g">>, <<>>, << <<"k">> >>, <<>>),
      VcfFile(f4, FALSE, <<"x">>, <<"h">>, <<>>, <<>>, << <<"t">> >>) }

DicomFile(id, locked, studyId, series, SeriesInstanceUID, ImageComments) ==
    [id |-> id, locked |-> locked, studyId |-> studyId, series |-> series,
     SeriesInstanceUID |-> SeriesInstanceUID, ImageComments |-> ImageComments]

Match(curie, name, text) == [curie |-> curie, name |-> name, text |-> text]

\* the DICOM files a project may list: a locked file and a file that opens of
\* one series, a file of another series, and a file of another study
DicomFiles ==
    { DicomFile(f1, TRUE, syn1, <<"a">>, <<"u">>, NoMatch),
      DicomFile(f2, FALSE, syn1, <<"a">>, <<"u">>, Match(<<"m">>, <<"n">>, <<"t">>)),
      DicomFile(f3, FALSE, syn1, <<"b">>, <<"w">>, NoMatch),
      DicomFile(f4, FALSE, syn2, <<"b">>, <<"y">>, Match(<<"m">>, <<"n">>, <<"t">>)) }

\* the wikis a later get_wikis run reads
StudyWikis ==
    { [ownerId |-> syn1, annotations |-> <<>>],
      [ownerId |-> syn1, annotations |-> << Match(<<"m">>, <<"n">>, <<"o">>) >>],
      [ownerId |-> syn2, annotations |-> << Match(<<"z">>, <<"n">>, <<"o">>) >>] }

\* the lists of at most MaxFiles different files
FileLists(all) ==
    UNION { { l \in [1..n -> all] : \A i, j \in 1..n : l[i] = l[j] => i = j } :
            n \in 0..MaxFiles }

\* project_ids and what get_project_files lists for each
ProjectLists(listed, split) ==
    << [project_id |-> syn1, files |-> SubSeq(listed, 1, split)],
       [project_id |-> syn2, files |-> SubSeq(listed, split + 1, Len(listed))] >>

\* write_intermediate and write_set, as the callers pass them
WriteFlags == { <<TRUE, TRUE>>, <<TRUE, FALSE>>, <<FALSE, FALSE>> }

Run(extractor, project_granularity, flags, projects) ==
    [extractor |-> extractor, project_granularity |-> project_granularity,
     write_intermediate |-> flags[1], write_set |-> flags[2], projects |-> projects]

\* get_vcf_data(project_ids, node_set, edge_set, ...) up to its loop
GetVcfData ==
    /\ pc = "build"
    /\ batch = NoBatch
    /\ \E listed \in FileLists(VcfFiles), flags \in WriteFlags :
         \E split \in 0..Len(listed) :
            batch' = Run("vcf", FALSE, flags, ProjectLists(listed, split))
    /\ process_files' = <<>>
    /\ pc' = "projects"
    /\ UNCHANGED <<storeVars, files, node_set2, edge_set2, proj>>
    /\ UNCHANGED scorerVars
    /\ UNCHANGED <<project, project_files, next_file, dicom_identifiers, data_source,
                   ident, frame>>

\* get_dicom_data(project_ids, node_set, edge_set, ...) up to its loop
GetDicomData ==
    /\ pc = "build"
    /\ batch = NoBatch
    /\ \E listed \in FileLists(DicomFiles), flags \in WriteFlags,
          project_granularity \in BOOLEAN :
         \E split \in 0..Len(listed) :
            batch' = Run("dicom", project_granularity, flags, ProjectLists(listed, split))
    /\ process_files' = <<>>
    /\ dicom_identifiers' = {}
    /\ pc' = "projects"
    /\ UNCHANGED <<storeVars, files, node_set2, edge_set2, proj>>
    /\ UNCHANGED scorerVars
    /\ UNCHANGED <<project, project_files, next_file, data_source, ident, frame>>

\* for project_id in project_ids: project_files = get_project_files(...)
GetProjectFiles ==
    /\ pc = "projects"
    /\ raised = NoError
    /\ project < Len(batch.projects)
    /\ project' = project + 1
    /\ project_files' = batch.projects[project + 1].files
    /\ next_file' = 1
    /\ pc' = "files"
    /\ UNCHANGED <<storeVars, files, node_set2, edge_set2, proj>>
    /\ UNCHANGED scorerVars
    /\ UNCHANGED <<batch, process_files, dicom_identifiers, data_source, ident, frame>>

\* the graph as an extractor leaves it; the loop goes on unless it raised
Leaves(g, status) ==
    /\ nodes' = g.nodes
    /\ edges' = g.edges
    /\ ident' = g.ident
    /\ data_source' = g.data_source
    /\ frame' = g.frame
    /\ raised' = g.raised
    /\ IF g.raised = NoError
       THEN /\ process_files' = Append(process_files, status)
            /\ next_file' = next_file + 1
       ELSE UNCHANGED <<process_files, next_file>>

\* one turn of the loop over project_files of get_vcf_data
ParseVcfFile ==
    /\ pc = "files"
    /\ raised = NoError
    /\ batch.extractor = "vcf"
    /\ next_file <= Len(project_files)
    /\ \E out \in { parse_vcf_file(Graph(nodes, edges, ident, data_source, frame),
                                   project_files[next_file],
                                   batch.projects[project].project_id) } :
         Leaves(out.g, out.status)
    /\ UNCHANGED <<calls, serialVars, batch, project, project_files, dicom_identifiers>>
    /\ UNCHANGED scorerVars

\* one turn of the loop over project_files of get_dicom_data
ProcessDicom ==
    /\ pc = "files"
    /\ raised = NoError
    /\ batch.extractor = "dicom"
    /\ next_file <= Len(project_files)
    /\ \E out \in { process_dicom(Graph(nodes, edges, ident, data_source, frame),
                                  project_files[next_file], dicom_identifiers,
                                  batch.project_granularity) } :
         /\ Leaves(out.g, out.status)
         /\ dicom_identifiers' = IF out.g.raised = NoError THEN out.identifiers
                                 ELSE dicom_identifiers
    /\ UNCHANGED <<calls, serialVars, batch, project, project_files>>
    /\ UNCHANGED scorerVars

\* the end of a turn of the loop over project_ids: if write_intermediate
EndProject ==
    /\ pc = "files"
    /\ raised = NoError
    /\ next_file > Len(project_files)
    /\ IF batch.write_intermediate
       THEN \E out \in ExtractorWrite(files, nodes, edges, batch.extractor) :
               /\ files' = out.files
               /\ raised' = out.raised
               /\ pc' = IF out.raised = NoError THEN "projects" ELSE pc
       ELSE /\ pc' = "projects"
            /\ UNCHANGED <<files, raised>>
    /\ UNCHANGED <<nodes, edges, calls, node_set2, edge_set2, proj>>
    /\ UNCHANGED scorerVars
    /\ UNCHANGED batchVars

\* after the loop over project_ids: if write_set.  (The report that follows is
\* not part of the model.)
EndBatch ==
    /\ pc = "projects"
    /\ raised = NoError
    /\ project = Len(batch.projects)
    /\ IF batch.write_set
       THEN \E out \in ExtractorWrite(files, nodes, edges, batch.extractor) :
               /\ files' = out.files
               /\ raised' = out.raised
               /\ pc' = IF out.raised = NoError THEN "done" ELSE pc
       ELSE /\ pc' = "done"
            /\ UNCHANGED <<files, raised>>
    /\ UNCHANGED <<nodes, edges, calls, node_set2, edge_set2, proj>>
    /\ UNCHANGED scorerVars
    /\ UNCHANGED batchVars

\* a get_wikis run on the graph the extractor returned: one project's wiki
GetEntitiesFromWiki ==
    /\ pc = "done"
    /\ raised = NoError
    /\ \E study_wiki \in StudyWikis :
         \E g \in { get_entities_from_wiki(Graph(nodes, edges, ident, data_source, frame),
                                           study_wiki) } :
            /\ nodes' = g.nodes
            /\ edges' = g.edges
            /\ ident' = g.ident
            /\ data_source' = g.data_source
            /\ frame' = g.frame
            /\ raised' = g.raised
    /\ pc' = "wiki"
    /\ UNCHANGED <<calls, files, node_set2, edge_set2, proj>>
    /\ UNCHANGED scorerVars
    /\ UNCHANGED <<batch, project, project_files, next_file, process_files,
                   dicom_identifiers>>

NextBatch ==
    \/ GetVcfData \/ GetDicomData \/ GetProjectFiles \/ ParseVcfFile \/ ProcessDicom
    \/ EndProject \/ EndBatch \/ GetEntitiesFromWiki

SpecBatch == Init /\ [][NextBatch]_vars


\* ------------------------------------------------ claims on the extractors
\* the files the two loops have taken up so far, in order
FilesTaken ==
    Flatten([j \in 1..(project - 1) |-> batch.projects[j].files])
    \o SubSeq(project_files, 1, next_file - 1)

\* every file of the batch
AllFiles == Flatten([j \in 1..Len(batch.projects) |-> batch.projects[j].files])

\* one status entry for every file taken up, in order, and one that says
\* able_to_process = False for a file that could not be fetched
OneEntryPerFile ==
    batch # NoBatch =>
       /\ Len(process_files) = Len(FilesTaken)
       /\ \A k \in 1..Len(process_files) :
            /\ process_files[k].file_id = FilesTaken[k].id
            /\ FilesTaken[k].locked => ~process_files[k].able_to_process
       /\ pc \in {"done", "wiki"} => FilesTaken = AllFiles

\* the loop stands before a file whose fetch fails
BeforeLockedFile ==
    /\ pc = "files"
    /\ raised = NoError
    /\ next_file <= Len(project_files)
    /\ project_files[next_file].locked

\* the turn of the loop for a file whose fetch fails: a status entry with
\* able_to_process = False is recorded, both stores are left as they were, and
\* the loop stands before the next file
FailedFetchStep ==
    BeforeLockedFile =>
       /\ Len(process_files') = Len(process_files) + 1
       /\ SubSeq(process_files', 1, Len(process_files)) = process_files
       /\ process_files'[Len(process_files')].file_id = project_files[next_file].id
       /\ ~process_files'[Len(process_files')].able_to_process
       /\ nodes' = nodes
       /\ edges' = edges
       /\ raised' = NoError
       /\ pc' = "files"
       /\ next_file' = next_file + 1

SeriesOf(obj) ==
    IF ~batch.project_granularity THEN <<obj.studyId, obj.series>> ELSE <<obj.studyId>>

\* the k-th file taken up was fetched and its DICOM_series node upserted
FetchedAndUpserted(k) ==
    /\ k <= Len(process_files)
    /\ ~FilesTaken[k].locked
    /\ process_files[k].able_to_process
    /\ FilesTaken[k].SeriesInstanceUID \in DOMAIN nodes

\* C30: at every point of a get_dicom_data run, a series identifier is in
\* dicom_identifiers only if a file with that identifier has been fetched and
\* its DICOM_series node upserted; hence when the first file of a series cannot
\* be fetched, a later fetchable file of the same series is still processed.
C30_IdentifiersAreProcessed ==
    (batch # NoBatch /\ batch.extractor = "dicom") =>
       /\ \A series_identifier \in dicom_identifiers :
             \E k \in 1..Len(FilesTaken) :
                /\ SeriesOf(FilesTaken[k]) = series_identifier
                /\ FetchedAndUpserted(k)
       /\ \A j \in 1..Len(process_files) :
             ( /\ ~FilesTaken[j].locked
               /\ \E k \in 1..(j - 1) : SeriesOf(FilesTaken[k]) = SeriesOf(FilesTaken[j])
               /\ \A k \in 1..(j - 1) :
                     SeriesOf(FilesTaken[k]) = SeriesOf(FilesTaken[j]) => FilesTaken[k].locked )
             => process_files[j].able_to_process


\* C28: frame of upsert.  An upsert under key k changes at most the record
\* stored under k; every other record of the store has the same field values
\* before and after, also when several records were created from the same
\* caller-supplied set object.
C28_UpsertFrame ==
    frame.key # None =>
       \A k \in DOMAIN frame.before \ {frame.key} :
          /\ k \in DOMAIN nodes
          /\ nodes[k] = frame.before[k]

====
